---------------------------- MODULE Spec2Model ----------------------------
(***************************************************************************)
(* A model of alertmanager_bot: the callback session store (a ttlcache     *)
(* keyed by ksuid tokens), the update router (handleUpdates), and the      *)
(* message dispatcher (splitStringIntoChunks, sendMessage).                *)
(*                                                                         *)
(* A Go string is a sequence of one-character strings; len() is Len().     *)
(* The message length limit maxMessageTextLength is 4096 in the source     *)
(* (part_004:355); the model runs the same code with a small limit, so     *)
(* that texts on both sides of the limit can be enumerated.                *)
(***************************************************************************)
EXTENDS Integers, Sequences, FiniteSets, TLC

VARIABLES
    text,       \* splitStringIntoChunks: the argument
    chunks,     \* splitStringIntoChunks: the returned slice
    cpc,        \* splitStringIntoChunks: "call" before, "done" after the call
    cfgRetry,   \* cfg.SendMessageRetryCount
    msg,        \* sendMessage: the Chattable c it is called with
    spc,        \* sendMessage: "idle", "next" (between two operations),
                \* "send" (inside the send closure), "done" (returned)
    ops,        \* sendMessage: the operations handed to send so far, each
                \* with the closure's result and whether the transport was
                \* called for it at all
    attempts,   \* send closure: the transport's answers to the attempts of
                \* the current operation, each with the sleep that followed
    ri,         \* send closure: the loop counter i
    serr,       \* send closure: its variable err
    err,        \* sendMessage: the error returned
    cfgRows,    \* cfg.KeyboardRows
    cfgWebhookTmpl, \* whether cfg.WebhookAlertsTemplatePath is not empty
    cfgAlertsTmpl,  \* whether cfg.GettableAlertsTemplatePath is not empty
    cfgSilencesTmpl, \* whether cfg.SilencesTemplatePath is not empty
    cache,      \* bot.Cache: the items of the ttlcache, by key
    nextID,     \* the number of ksuid.New() calls so far: the keys made
    now,        \* the time, in ticks
    rpc,        \* handleUpdates: "idle" (at the range over updates), "got"
                \* (after Cache.Get, at 58), "removed" (after Cache.Remove)
    rtok,       \* handleUpdates: update.CallbackQuery.Data
    rdata,      \* handleUpdates: cacheData
    cbLog,      \* history: the callback queries handled, with what Cache.Get
                \* answered and whether processCallbackQuery has run
    hpc,        \* concurrent lookups: where each handler is between the
                \* lines 53 and 58 of handleUpdates
    htok,       \* concurrent lookups: each handler's update.CallbackQuery.Data
    hgot,       \* concurrent lookups: the keys each handler got the data of
    hin,        \* one call of a handler or a menu builder: its arguments
                \* and what the upstream services answer during it
    out         \* one call of a handler or a menu builder: what it did

chunkVars == <<text, chunks, cpc>>

sendVars == <<cfgRetry, msg, spc, ops, attempts, ri, serr, err>>

cfgVars == <<cfgRows, cfgWebhookTmpl, cfgAlertsTmpl, cfgSilencesTmpl>>

botVars == <<cfgVars, cache, nextID, now, rpc, rtok, rdata, cbLog>>

takeVars == <<hpc, htok, hgot>>

callVars == <<hin, out>>

vars == <<text, chunks, cpc, cfgRetry, msg, spc, ops, attempts, ri, serr, err,
          cfgRows, cfgWebhookTmpl, cfgAlertsTmpl, cfgSilencesTmpl, cache,
          nextID, now, rpc, rtok, rdata, cbLog, hpc, htok, hgot, hin, out>>

-----------------------------------------------------------------------------
(* Bounds of the model *)

\* The longest text handed to splitStringIntoChunks.
MaxTextLen == 7

\* const maxMessageTextLength = 4096, scaled down.
maxMessageTextLength == 4

\* The most lines of a text handed to sendMessage.
MaxLines == 3

\* The largest cfg.SendMessageRetryCount (the default is 3, part of cfg).
MaxRetryCount == 2

\* cfg.KeyboardRows as main loads it when nothing configures it.
KeyboardRows == 2

\* The most keys ksuid.New() is asked for in one run.
MaxTokens == 4

\* The largest cfg.KeyboardRows of the menus built on their own; the
\* smallest is 0, which like a negative one no row's length ever equals.
MaxKeyboardRows == 3

\* The most callback queries handled in one run.
MaxCallbacks == 2

\* The number of updates of a stream handled from its start.
MaxUpdates == 3

\* The most keys in the cache when the clock starts.
MaxLive == 2

\* The last tick of the clock.
MaxTime == 2

\* The handlers that look a key up at the same time.
NumHandlers == 2

-----------------------------------------------------------------------------
(* Strings *)

NL == "\n"

\* The characters texts are made of: two letters and the newline.
Chars == {"a", "b", NL}

Texts == UNION {[1..n -> Chars] : n \in 0..MaxTextLen}

\* strings.Split(s, sep) for a one-character separator: the pieces between
\* the separators, the empty ones included; Split("") is [""].
RECURSIVE Split(_, _)
Split(s, sep) ==
    IF \E i \in 1..Len(s) : s[i] = sep
    THEN LET i == CHOOSE k \in 1..Len(s) :
                      s[k] = sep /\ \A j \in 1..(k - 1) : s[j] # sep
         IN  <<SubSeq(s, 1, i - 1)>> \o Split(SubSeq(s, i + 1, Len(s)), sep)
    ELSE <<s>>

\* The strings of a slice one after the other.
RECURSIVE Concat(_)
Concat(ss) == IF ss = <<>> THEN <<>> ELSE Head(ss) \o Concat(Tail(ss))

\* strings.Join(ss, sep).
RECURSIVE Join(_, _)
Join(ss, sep) ==
    IF ss = <<>> THEN <<>>
    ELSE IF Len(ss) = 1 THEN Head(ss)
    ELSE Head(ss) \o <<sep>> \o Join(Tail(ss), sep)

-----------------------------------------------------------------------------
(* splitStringIntoChunks, part_004:546-559 *)

\* The loop over the lines: k is the index of the line s, chunk the chunk
\* being built, acc the chunks appended so far.
RECURSIVE ChunkLoop(_, _, _, _)
ChunkLoop(splitted, k, chunk, acc) ==
    IF k > Len(splitted)
    THEN Append(acc, chunk)
    ELSE LET s     == splitted[k]
             over  == Len(chunk \o <<NL>> \o s) > maxMessageTextLength
             acc1  == IF over THEN Append(acc, chunk) ELSE acc
             chunk1 == IF over THEN <<>> ELSE chunk
         IN  ChunkLoop(splitted, k + 1, chunk1 \o <<NL>> \o s, acc1)

\* A splitter that cuts every maxMessageTextLength characters, lines or not.
RECURSIVE HardCut(_)
HardCut(s) ==
    IF Len(s) <= maxMessageTextLength THEN <<s>>
    ELSE <<SubSeq(s, 1, maxMessageTextLength)>>
             \o HardCut(SubSeq(s, maxMessageTextLength + 1, Len(s)))

splitStringIntoChunks_HardCut(t) == HardCut(<<NL>> \o t)

splitStringIntoChunks(t) == ChunkLoop(Split(t, NL), 1, <<>>, <<>>)

-----------------------------------------------------------------------------
(* sendMessage, part_004:561-629 *)

\* strings of n letters.
Rep(n) == [i \in 1..n |-> "a"]

\* The lines the texts handed to sendMessage are made of: the empty line, a
\* line of half the limit and a line of the limit (too long with its "\n").
Lines == {Rep(0), Rep(maxMessageTextLength \div 2), Rep(maxMessageTextLength)}

SendTexts == {Join(ls, NL) : ls \in UNION {[1..n -> Lines] : n \in 1..MaxLines}}

\* FloodError.RetryAfter, in seconds, as the server gives it.
RetryAfters == {1, 3}

\* The errors of the transport that are no FloodError.
OtherErrors == {"bad request", "forbidden"}

\* An error value: nil, a telebot.FloodError, another error of the
\* transport, or sendMessage's own "unsupported tgbotapi.Chattable type".
Error(kind, retryAfter, code) ==
    [kind |-> kind, retryAfter |-> retryAfter, code |-> code]

nil == Error("nil", 0, "")

\* What bot.BotAPI.Send may answer to one call.
Answers ==
    {nil} \cup {Error("flood", r, "") : r \in RetryAfters}
          \cup {Error("error", 0, c) : c \in OtherErrors}

\* A Chattable: its Go type, and the fields sendMessage reads or copies.
Chattable(type, t, parseMode, markup) ==
    [type |-> type, text |-> t, parseMode |-> parseMode, markup |-> markup]

\* The values sendMessage is called with. ReplyMarkup is nil ("none") or a
\* keyboard ("kb"); "Other" is a Chattable of no type the switch knows.
Chattables ==
    {Chattable(ty, t, pm, mk) :
        ty \in {"MessageConfig", "EditMessageTextConfig"},
        t \in SendTexts, pm \in {"", "HTML"}, mk \in {"none", "kb"}}
    \cup {Chattable(ty, <<>>, "", "none") :
        ty \in {"DeleteMessageConfig", "EditMessageReplyMarkupConfig", "Other"}}

\* tgbotapi.NewMessage(m.ChatID, c) for chunk i of cs, with m's ParseMode
\* and, for the last chunk only, m's ReplyMarkup (582-589, 601-606).
ChunkMessage_KeyboardOnAll(m, cs, i) ==
    Chattable("MessageConfig", cs[i], m.parseMode, m.markup)

ChunkMessage(m, cs, i) ==
    Chattable("MessageConfig", cs[i], m.parseMode,
              IF i = Len(cs) THEN m.markup ELSE "none")

\* tgbotapi.NewDeleteMessage(m.ChatID, m.MessageID) (597).
DeleteOf(m) == Chattable("DeleteMessageConfig", <<>>, "", "none")

\* An edit that is sent as one edit whatever the number of chunks.
PlannedOps_EditInPlace(m) ==
    IF m.type = "MessageConfig"
    THEN LET cs == splitStringIntoChunks(m.text)
         IN  [i \in 1..Len(cs) |-> ChunkMessage(m, cs, i)]
    ELSE IF m.type = "Other" THEN <<>> ELSE <<m>>

\* The type switch of sendMessage (581-626): the operations it hands to
\* send, in order, when none of them fails.
PlannedOps(m) ==
    CASE m.type = "MessageConfig" ->
            LET cs == splitStringIntoChunks(m.text)
            IN  [i \in 1..Len(cs) |-> ChunkMessage(m, cs, i)]
      [] m.type = "EditMessageTextConfig" ->
            LET cs == splitStringIntoChunks(m.text)
            IN  IF Len(cs) > 1
                THEN <<DeleteOf(m)>> \o [i \in 1..Len(cs) |-> ChunkMessage(m, cs, i)]
                ELSE <<m>>
      [] m.type \in {"DeleteMessageConfig", "EditMessageReplyMarkupConfig"} ->
            <<m>>
      [] OTHER -> <<>>

\* The loop condition of the send closure (563).
LoopRuns_OneMore(i) == i <= cfgRetry

LoopRuns(i) == i < cfgRetry

\* e, ok := err.(telebot.FloodError) (566).
IsFloodError_Any(e) == e.kind # "nil"

IsFloodError(e) == e.kind = "flood"

\* The seconds slept after a FloodError (572).
SleepAfter(e) == e.retryAfter

\* The entry of sendMessage: nothing sent yet.
SendIdle ==
    /\ spc = "idle" /\ msg = Chattable("Other", <<>>, "", "none")
    /\ ops = <<>> /\ attempts = <<>> /\ ri = 0 /\ serr = nil /\ err = nil

\* sendMessage reaches a call of send(m) (590, 598, 607, 612, 617, 621): the
\* closure starts with i = 0 and err = nil.
IssueOp ==
    /\ spc = "next"
    /\ Len(ops) < Len(PlannedOps(msg))
    /\ ops' = Append(ops, [op |-> PlannedOps(msg)[Len(ops) + 1],
                           sent |-> FALSE, res |-> Error("pending", 0, "")])
    /\ attempts' = <<>>
    /\ ri' = 0
    /\ serr' = nil
    /\ spc' = "send"
    /\ UNCHANGED <<cfgRetry, msg, err>>

\* A dispatcher that keeps the error and goes on to the next operation.
AfterSend_GoOn(e) ==
    /\ ops' = [ops EXCEPT ![Len(ops)].res = e,
                          ![Len(ops)].sent = (Len(attempts') >= 1)]
    /\ spc' = "next"
    /\ err' = IF e = nil THEN err ELSE e

\* The results of the closure as sendMessage sees them: nil goes on to the
\* next operation, an error is returned at once (590-592 and the like).
AfterSend(e) ==
    /\ ops' = [ops EXCEPT ![Len(ops)].res = e,
                          ![Len(ops)].sent = (Len(attempts') >= 1)]
    /\ IF e = nil
       THEN spc' = "next" /\ err' = err
       ELSE spc' = "done" /\ err' = e

\* One turn of the closure's loop (563-575): the call of bot.BotAPI.Send and
\* what follows its answer: a FloodError is slept on and the loop goes on;
\* any other answer breaks the loop, and the closure returns it.
Attempt ==
    /\ spc = "send"
    /\ LoopRuns(ri)
    /\ \E a \in Answers :
        /\ serr' = a
        /\ IF a # nil /\ IsFloodError(a)
           THEN /\ attempts' = Append(attempts, [m |-> ops[Len(ops)].op, ans |-> a,
                                                  slept |-> SleepAfter(a)])
                /\ ri' = ri + 1
                /\ UNCHANGED <<ops, spc, err>>
           ELSE /\ attempts' = Append(attempts, [m |-> ops[Len(ops)].op, ans |-> a,
                                                  slept |-> 0])
                /\ ri' = ri
                /\ AfterSend(a)
    /\ UNCHANGED <<cfgRetry, msg>>

\* The loop ends because i reached cfg.SendMessageRetryCount: the closure
\* returns err as the last turn left it (578).
LoopExit ==
    /\ spc = "send"
    /\ ~LoopRuns(ri)
    /\ attempts' = attempts
    /\ AfterSend(serr)
    /\ UNCHANGED <<cfgRetry, msg, ri, serr>>

\* No operation is left: sendMessage returns err, which is nil (628).
ReturnNil ==
    /\ spc = "next"
    /\ msg.type # "Other"
    /\ Len(ops) = Len(PlannedOps(msg))
    /\ spc' = "done"
    /\ UNCHANGED <<cfgRetry, msg, ops, attempts, ri, serr, err>>

\* The default case of the switch (624-625).
ReturnUnsupported ==
    /\ spc = "next"
    /\ msg.type = "Other"
    /\ err' = Error("unsupported", 0, "")
    /\ spc' = "done"
    /\ UNCHANGED <<cfgRetry, msg, ops, attempts, ri, serr>>

-----------------------------------------------------------------------------
(* The session store: bot.Cache, the ttlcache of main.go:166 *)

\* The cache's global TTL. main calls ttlcache.NewCache() and never SetTTL,
\* so the TTL is the zero value NewCache leaves, which ttlcache reads as
\* "items do not expire".
cacheTTL == 0

\* The item Cache.Set(key, data) stores at time t: its ttl is the global
\* one, and only a positive ttl gives it an expiry time. setAt is history.
Item(data, t) ==
    [data |-> data, ttl |-> cacheTTL,
     expireAt |-> IF cacheTTL > 0 THEN t + cacheTTL ELSE 0, setAt |-> t]

\* Whether an item has expired at time t: never, without a positive ttl.
expired(item, t) == item.ttl > 0 /\ item.expireAt < t

\* bot.Cache.Set(key, data) at time t.
CacheSet(c, key, data, t) ==
    [k \in DOMAIN c \cup {key} |-> IF k = key THEN Item(data, t) ELSE c[k]]

\* bot.Cache.Set of each of datas, in order, under the keys base+1, base+2, ...
\* that ksuid.New() makes after base keys.
RECURSIVE CacheSetAll(_, _, _, _)
CacheSetAll(c, base, datas, t) ==
    IF datas = <<>> THEN c
    ELSE CacheSetAll(CacheSet(c, base + 1, Head(datas), t), base + 1, Tail(datas), t)

\* Whether bot.Cache.Get(key) finds an item at time t: ErrNotFound when the
\* key is absent or its item has expired.
CacheHas(c, key, t) == key \in DOMAIN c /\ ~expired(c[key], t)

\* A lookup that leaves an empty callback under the key.
CacheTouch_Rewrite(c, key, t) ==
    [c EXCEPT ![key].data = [type |-> "", data |-> [k \in {} |-> ""]]]

\* What a hit of bot.Cache.Get(key) leaves: the item's expiry is extended.
CacheTouch(c, key, t) ==
    [c EXCEPT ![key].expireAt = IF c[key].ttl > 0 THEN t + c[key].ttl ELSE @]

\* A Remove that removes nothing.
CacheRemove_Keep(c, key) == c

\* A Remove that empties the cache.
CacheRemove_All(c, key) == [k \in {} |-> c[k]]

\* bot.Cache.Remove(key).
CacheRemove(c, key) == [k \in DOMAIN c \ {key} |-> c[k]]

\* The cache's expiration goroutine at time t: expired items are dropped.
CacheSweep(c, t) == [k \in {x \in DOMAIN c : ~expired(c[x], t)} |-> c[k]]

-----------------------------------------------------------------------------
(* Callbacks and keyboards *)

\* A nil or empty map[string]string.
EmptyMap == [k \in {} |-> ""]

\* m[k] of a Go map: the empty string for a key the map does not hold.
MapGet(m, k) == IF k \in DOMAIN m THEN m[k] ELSE ""

\* type Callback struct (part_002:20-23).
Callback(type, data) == [type |-> type, data |-> data]

\* tgbotapi.NewInlineKeyboardButtonData(text, data); data is a cache key.
Button(label, key) == [text |-> label, data |-> key]

\* A button's text: a configured prefix, named here by its cfg field ("" for
\* none), and then the words.
Label(prefix, name) == [prefix |-> prefix, name |-> name]

\* A text with the two prefixes the other way round.
ButtonLabel_Swapped(alerts, name) ==
    Label(IF alerts = "none" THEN "ButtonPrefixFail" ELSE "ButtonPrefixOK", name)

\* A menu button's text: cfg.ButtonPrefixOK or cfg.ButtonPrefixFail, by
\* whether the alert query returned no alert, and then the name.
ButtonLabel(alerts, name) ==
    Label(IF alerts = "none" THEN "ButtonPrefixOK" ELSE "ButtonPrefixFail", name)

\* A target of the monitoring service, by its labels job and instance (""
\* for a label the target lacks).
Target(job, instance) == [job |-> job, instance |-> instance]

\* The order of the instance labels as Go compares strings.
InstanceRank(i) ==
    CASE i = "" -> 0 [] i = "i1" -> 1 [] i = "i2" -> 2 [] OTHER -> 3

\* An answer of an external call: an error, or a value.
Failed == [err |-> TRUE, val |-> <<>>]

Ok(v) == [err |-> FALSE, val |-> v]

\* v1api.LabelValues(ctx, "job", ...): an error or the job names, sorted.
JobsAnswers ==
    {Failed, Ok(<<>>), Ok(<<"j1">>), Ok(<<"j1", "j2">>)}

\* v1api.Targets(ctx): an error or some targets, in any order.
TargetsAnswers ==
    {Failed, Ok(<<>>), Ok(<<Target("j1", "i1")>>),
     Ok(<<Target("j1", "i2"), Target("j1", "i1")>>),
     Ok(<<Target("j2", "i3"), Target("j1", "")>>)}

\* Alert.GetAlerts for one filter: an error, no alert, or some alerts.
AlertsAnswers == {"error", "none", "some"}

\* The targets left in the order the monitoring service returned them.
SortByInstance_Unsorted(ts) == ts

\* sort.Slice(targets.Active, by the instance label) (483-485): insertion
\* into a sorted sequence. The instance labels of answers differ, so
\* the order is the one order every sort gives.
RECURSIVE SortByInstance(_)
SortByInstance(ts) ==
    IF ts = <<>> THEN <<>>
    ELSE LET rest == SortByInstance(Tail(ts))
             t    == Head(ts)
             lo   == SelectSeq(rest, LAMBDA u : InstanceRank(u.instance) < InstanceRank(t.instance))
             hi   == SelectSeq(rest, LAMBDA u : ~(InstanceRank(u.instance) < InstanceRank(t.instance)))
         IN  lo \o <<t>> \o hi

\* One button more in the row r of the keyboard kb (446-450, 532-536): the
\* row is closed when it holds cfg.KeyboardRows buttons.
AddButton(st, b, cb) ==
    LET r1 == Append(st.r, b)
    IN  [st EXCEPT !.sets = Append(@, cb),
                   !.r  = IF Len(r1) = cfgRows THEN <<>> ELSE r1,
                   !.kb = IF Len(r1) = cfgRows THEN Append(@, r1) ELSE @]

\* The row left open after the loop is closed (453-455, 539-541).
CloseRow(st) == IF Len(st.r) > 0 THEN Append(st.kb, st.r) ELSE st.kb

\* A loop that ends at the first label whose GetAlerts fails.
JobsLoop_StopAtFailure(labels, al, k, st) ==
    LET ok == SubSeq(labels, k, Len(labels))
        n  == IF \E i \in 1..Len(ok) : al[ok[i]] = "error"
              THEN (CHOOSE i \in 1..Len(ok) :
                        al[ok[i]] = "error" /\ \A j \in 1..(i - 1) : al[ok[j]] # "error") - 1
              ELSE Len(ok)
    IN  [r    |-> <<>>,
         kb   |-> IF n = 0 THEN st.kb
                  ELSE Append(st.kb, [i \in 1..n |-> Button(ButtonLabel(al[ok[i]], ok[i]),
                                                            st.base + Len(st.sets) + i)]),
         sets |-> st.sets \o [i \in 1..n |-> Callback("job", [job_name |-> ok[i]])],
         base |-> st.base]

\* The loop of newJobsKB (418-451) from label k on. st holds the row r, the
\* keyboard kb and the callbacks set so far, the i-th under key base + i.
RECURSIVE JobsLoop(_, _, _, _)
JobsLoop(labels, al, k, st) ==
    IF k > Len(labels) THEN st
    ELSE LET l == labels[k]
         IN  IF al[l] = "error"
             THEN JobsLoop(labels, al, k + 1, st)
             ELSE JobsLoop(labels, al, k + 1,
                      AddButton(st,
                                Button(ButtonLabel(al[l], l), st.base + Len(st.sets) + 1),
                                Callback("job", [job_name |-> l])))

\* A jobs keyboard without the row of the close button.
newJobsKB_NoClose(jobs, al, base) ==
    IF jobs.err THEN [err |-> TRUE, kb |-> <<>>, sets |-> <<>>]
    ELSE LET st == JobsLoop(jobs.val, al, 1,
                       [r |-> <<>>, kb |-> <<>>, sets |-> <<>>, base |-> base])
         IN  [err |-> FALSE, kb |-> CloseRow(st), sets |-> st.sets]

\* newJobsKB (405-468), for the answer jobs of LabelValues and the answers
\* al of GetAlerts by job: the error, the keyboard, the callbacks set.
newJobsKB(jobs, al, base) ==
    IF jobs.err THEN [err |-> TRUE, kb |-> <<>>, sets |-> <<>>]
    ELSE LET st == JobsLoop(jobs.val, al, 1,
                       [r |-> <<>>, kb |-> <<>>, sets |-> <<>>, base |-> base])
         IN  [err  |-> FALSE,
              kb   |-> Append(CloseRow(st),
                              <<Button(Label("", "Close menu"),
                                       base + Len(st.sets) + 1)>>),
              sets |-> Append(st.sets, Callback("close", EmptyMap))]

\* The loop of newTargetsKB (488-537) from target k on. A target that lacks
\* a label is logged (489-498; json.Marshal of a target does not fail) and
\* the loop body goes on with it.
RECURSIVE TargetsLoop(_, _, _, _, _)
TargetsLoop(ts, al, jobName, k, st) ==
    IF k > Len(ts) THEN st
    ELSE LET t == ts[k]
         IN  IF t.job # jobName
             THEN TargetsLoop(ts, al, jobName, k + 1, st)
             ELSE IF al[t.instance] = "error"
             THEN TargetsLoop(ts, al, jobName, k + 1, st)
             ELSE TargetsLoop(ts, al, jobName, k + 1,
                      AddButton(st,
                                Button(ButtonLabel(al[t.instance], t.instance),
                                       st.base + Len(st.sets) + 1),
                                Callback("target", [job_name |-> jobName,
                                                    target_name |-> t.instance])))

\* newTargetsKB (470-544), for the answer targets of Targets and the
\* answers al of GetAlerts by instance.
newTargetsKB(targets, al, jobName, base) ==
    IF targets.err THEN [err |-> TRUE, kb |-> <<>>, sets |-> <<>>]
    ELSE LET st == TargetsLoop(SortByInstance(targets.val), al, jobName, 1,
                       [r |-> <<>>, kb |-> <<>>, sets |-> <<>>, base |-> base])
         IN  [err |-> FALSE, kb |-> CloseRow(st), sets |-> st.sets]

-----------------------------------------------------------------------------
(* The handlers: what each does to the cache and hands to sendMessage *)

\* A Chattable a handler builds: its type, its text, its parse mode and its
\* inline keyboard (<<>> for none or an empty one).
Msg(type, t, parseMode, kb) ==
    [type |-> type, text |-> t, parseMode |-> parseMode, kb |-> kb]

\* A text: its fixed words, or the template it is rendered with, and the
\* values formatted into it.
Text(words, args) == [words |-> words, args |-> args]

\* A handler up to its calls of sendMessage: the error it stops with before
\* any of them, the callbacks it has set in the cache, and the messages it
\* hands to sendMessage, in order; and the calls it has made of the
\* upstream services, in order.
Plan(e, sets, msgs) == [err |-> e, sets |-> sets, msgs |-> msgs, queries |-> <<>>]

\* The plan of a handler that has made the upstream calls qs.
Asked(qs, plan) == [plan EXCEPT !.queries = qs]

\* An upstream call: the client method and, of Alert.GetAlerts, the filter.
Query(method, filter) == [method |-> method, filter |-> filter]

\* The upstream calls of newJobsKB (411, 419): LabelValues, and when it
\* returns no error GetAlerts for each label.
JobsQueries(jobs) ==
    <<Query("LabelValues", <<"job">>)>> \o
        (IF jobs.err THEN <<>>
         ELSE [i \in 1..Len(jobs.val) |-> Query("GetAlerts", <<"job", jobs.val[i]>>)])

\* The upstream calls of newTargetsKB (476, 505): Targets, and when it
\* returns no error GetAlerts for each target of the job, by instance.
TargetsQueries(targets, jobName) ==
    <<Query("Targets", <<>>)>> \o
        (IF targets.err THEN <<>>
         ELSE LET ts == SelectSeq(SortByInstance(targets.val),
                                  LAMBDA t : t.job = jobName)
              IN  [i \in 1..Len(ts) |-> Query("GetAlerts", <<"instance", ts[i].instance>>)])

\* cfg.SilenceDuration, in ticks of the clock.
SilenceDuration == 1

\* A models.Matcher.
Matcher(name, value, isRegex) == [name |-> name, value |-> value, isRegex |-> isRegex]

\* Silence.PostSilences with a models.PostableSilence.
PostSilences(matchers, startsAt, endsAt) ==
    [method |-> "PostSilences", filter |-> <<>>, matchers |-> matchers,
     startsAt |-> startsAt, endsAt |-> endsAt]

NoCallback == Callback("", EmptyMap)

Range(f) == {f[x] : x \in DOMAIN f}

\* What the upstream services answer during one handler: LabelValues,
\* Targets, GetAlerts by the filter's value, applyTemplate, PostSilences;
\* GetAlerts without a filter, GetSilences (the states of the silences),
\* which of GetStatus, Buildinfo and Runtimeinfo fails first; and what
\* time.Now() returns, call by call.
NoWorld ==
    [jobs |-> Failed, targets |-> Failed, alerts |-> EmptyMap,
     template |-> TRUE, postSilence |-> TRUE,
     allAlerts |-> "none", silences |-> Failed, status |-> "",
     clock |-> <<0, 0>>]

\* The two readings of time.Now() in the case "silence" (462, 463): the
\* second is taken after the first, at the same tick or a later one.
Clocks == {<<0, 0>>, <<0, 1>>}

\* Silence.GetSilences: an error or the silences, by their states.
SilencesAnswers ==
    {Failed, Ok(<<>>), Ok(<<"expired">>), Ok(<<"active">>),
     Ok(<<"expired", "active">>), Ok(<<"active", "active">>)}

\* The first of General.GetStatus, v1api.Buildinfo and v1api.Runtimeinfo
\* that returns an error: "" when none does.
StatusAnswers == {"", "GetStatus", "Buildinfo", "Runtimeinfo"}

\* applyTemplate (387-404) with the template of a cfg path that is set or
\* not: whether it returns no error. Without a path template.ParseFiles
\* has no file to open.
applyTemplate(pathSet, w) == pathSet /\ w.template

JobsWorlds ==
    UNION {{[NoWorld EXCEPT !.jobs = j, !.alerts = al] :
               al \in [Range(j.val) -> AlertsAnswers]} : j \in JobsAnswers}

TargetsWorlds ==
    UNION {{[NoWorld EXCEPT !.targets = ta, !.alerts = al] :
               al \in [{t.instance : t \in Range(ta.val)} -> AlertsAnswers]} :
           ta \in TargetsAnswers}

\* cfg.Users, and who writes to the bot.
Users == {"admin"}

Senders == {"admin", "guest"}

\* m.Command() of the messages handled: "" for a text that is no command.
Commands == {"", "help", "start", "targets", "foo"}

\* The commands that take an argument.
ArgCommands == {"alerts", "silences"}

JSON == <<"j", "s", "o", "n">>

\* m.CommandArguments(): the text after the command.
ArgStrings ==
    {<<>>, JSON, <<"x">>, <<"j">>, JSON \o <<" ">>, <<" ", "x">>,
     JSON \o <<" ">> \o JSON, <<"x", " ", "x">>}

Message(from, command, args) == [from |-> from, command |-> command, args |-> args]

Messages ==
    {Message(f, c, <<>>) : f \in Senders, c \in Commands \cup {"status"}}
        \cup {Message(f, c, a) : f \in Senders, c \in ArgCommands, a \in ArgStrings}

\* A check that lets every argument string pass.
CheckArgs_Lenient(args) == ""

\* The check of the arguments of /alerts (119-134) and /silences (235-250):
\* the reply it ends the command with, "" when it passes.
CheckArgs(args) ==
    LET argsArr == Split(args, " ")
    IN  IF Len(argsArr) > 1 THEN "Too many arguments."
        ELSE IF Len(argsArr[1]) # 0 /\ argsArr[1] # JSON THEN "Unknown argument."
        ELSE ""

MessageWorlds(m) ==
    IF ~(m.from \in Users) THEN {NoWorld}
    ELSE CASE m.command = "targets" -> JobsWorlds
           [] m.command = "alerts" /\ CheckArgs(m.args) = "" ->
                {[NoWorld EXCEPT !.allAlerts = al, !.template = tm] :
                    al \in AlertsAnswers, tm \in BOOLEAN}
           [] m.command = "silences" /\ CheckArgs(m.args) = "" ->
                {[NoWorld EXCEPT !.silences = sl, !.template = tm] :
                    sl \in SilencesAnswers, tm \in BOOLEAN}
           [] m.command = "status" ->
                {[NoWorld EXCEPT !.status = st] : st \in StatusAnswers}
           [] OTHER -> {NoWorld}

\* A reply of processMessage: one message without parse mode or keyboard.
Reply(words, args) ==
    Plan("", <<>>, <<Msg("MessageConfig", Text(words, args), "", <<>>)>>)

\* The same with ParseMode = tgbotapi.ModeHTML.
ReplyHTML(words, args) ==
    Plan("", <<>>, <<Msg("MessageConfig", Text(words, args), "HTML", <<>>)>>)

\* A rendering that does not return after the JSON is sent.
Render_Both(json, pathSet, w, what, tmplName) ==
    LET raw == Reply("json.MarshalIndent", <<what>>)
    IN  IF json /\ applyTemplate(pathSet, w)
        THEN [raw EXCEPT !.msgs = Append(@, ReplyHTML(tmplName, <<what>>).msgs[1])]
        ELSE IF json THEN raw
        ELSE IF ~applyTemplate(pathSet, w)
        THEN Plan("error applying template", <<>>, <<>>)
        ELSE ReplyHTML(tmplName, <<what>>)

\* The end of the cases "alerts" (152-178) and "silences" (276-302): the
\* items go out as indented JSON when json holds, and else as the text of
\* the template of a cfg path, in HTML.
Render(json, pathSet, w, what, tmplName) ==
    IF json THEN Reply("json.MarshalIndent", <<what>>)
    ELSE IF ~applyTemplate(pathSet, w)
    THEN Plan("error applying template", <<>>, <<>>)
    ELSE ReplyHTML(tmplName, <<what>>)

\* processMessage, case "alerts" (117-178).
Alerts(m, w) ==
    LET q == <<Query("GetAlerts", <<>>)>>
    IN  IF CheckArgs(m.args) # "" THEN Reply(CheckArgs(m.args), <<>>)
        ELSE IF w.allAlerts = "error"
        THEN Asked(q, Plan("error getting alerts", <<>>, <<>>))
        ELSE IF w.allAlerts = "none"
        THEN Asked(q, Reply("No active alerts found.", <<>>))
        ELSE Asked(q, Render(~cfgAlertsTmpl \/ Split(m.args, " ")[1] = JSON,
                             cfgAlertsTmpl, w, "alerts", "GettableAlertsTemplatePath"))

\* processMessage, case "silences" (233-302). Whether the silences are sent
\* as JSON is decided by cfg.GettableAlertsTemplatePath (279); the template
\* applied is the one of cfg.SilencesTemplatePath (293).
Silences(m, w) ==
    LET q      == <<Query("GetSilences", <<>>)>>
        active == IF w.silences.err THEN <<>>
                  ELSE SelectSeq(w.silences.val, LAMBDA st : st = "active")
    IN  IF CheckArgs(m.args) # "" THEN Reply(CheckArgs(m.args), <<>>)
        ELSE IF w.silences.err
        THEN Asked(q, Plan("error gettnig silences", <<>>, <<>>))
        ELSE IF Len(active) = 0
        THEN Asked(q, Reply("No active silences found.", <<>>))
        ELSE Asked(q, Render(~cfgAlertsTmpl \/ Split(m.args, " ")[1] = JSON,
                             cfgSilencesTmpl, w, "silences", "SilencesTemplatePath"))

\* processMessage, case "status" (191-232).
Status(w) ==
    LET calls == <<Query("GetStatus", <<>>), Query("Buildinfo", <<>>),
                   Query("Runtimeinfo", <<>>)>>
    IN  CASE w.status = "GetStatus" ->
               Asked(SubSeq(calls, 1, 1),
                     Plan("error getting alertmanager status", <<>>, <<>>))
          [] w.status = "Buildinfo" ->
               Asked(SubSeq(calls, 1, 2),
                     Plan("error getting prometheus status", <<>>, <<>>))
          [] w.status = "Runtimeinfo" ->
               Asked(calls, Plan("error getting prometheus status", <<>>, <<>>))
          [] OTHER ->
               Asked(calls, ReplyHTML("Alertmanager Prometheus Bot",
                                      <<"Version", "Uptime">>))

\* processMessage after the check of the sender (99-310).
Commanded(m, w, base) ==
    IF m.command = ""
    THEN Plan("", <<>>, <<Msg("MessageConfig",
                              Text("Message doesn't look like a command.", <<"helpMsg">>),
                              "", <<>>)>>)
    ELSE CASE m.command \in {"help", "start"} ->
                ReplyHTML("Telegram Bot for Alertmanager", <<"versionString", "helpMsg">>)
           [] m.command = "alerts" -> Alerts(m, w)
           [] m.command = "targets" ->
                LET j == newJobsKB(w.jobs, w.alerts, base)
                IN  Asked(JobsQueries(w.jobs),
                          IF j.err THEN Plan("error creating jobs menu", <<>>, <<>>)
                          ELSE Plan("", j.sets,
                                    <<Msg("MessageConfig", Text("Select job:", <<>>),
                                          "", j.kb)>>))
           [] m.command = "status" -> Status(w)
           [] m.command = "silences" -> Silences(m, w)
           [] OTHER -> Reply("Unknown command.", <<"helpMsg">>)

\* A processMessage that answers whoever writes.
processMessage_NoGate(m, w, base) == Commanded(m, w, base)

\* processMessage (78-311): only the users of cfg.Users are answered.
processMessage(m, w, base) ==
    IF ~(m.from \in Users) THEN Reply("I can't talk to you, sorry.", <<>>)
    ELSE Commanded(m, w, base)

\* A targets menu that always replaces the originating message.
TargetsMenu_AlwaysEdit(cb, w, base, leaveLast) ==
    LET t    == newTargetsKB(w.targets, w.alerts, MapGet(cb.data, "job_name"), base)
        key  == base + Len(t.sets) + 1
        kb   == Append(t.kb, <<Button(Label("", "Go back"), key)>>)
        sets == Append(t.sets, Callback("jobs", EmptyMap))
    IN  IF t.err THEN Plan("error creating targets menu", <<>>, <<>>)
        ELSE Plan("", sets,
                  <<Msg("EditMessageTextConfig", Text("Select target:", <<>>), "", kb)>>)

\* The cases "job" (319-356) and "targets" (408-429) of processCallbackQuery:
\* the targets menu with a "Go back" button under a new key.
TargetsMenu(cb, w, base, leaveLast) ==
    LET t    == newTargetsKB(w.targets, w.alerts, MapGet(cb.data, "job_name"), base)
        key  == base + Len(t.sets) + 1
        kb   == Append(t.kb, <<Button(Label("", "Go back"), key)>>)
        sets == Append(t.sets, Callback("jobs", EmptyMap))
    IN  IF t.err THEN Plan("error creating targets menu", <<>>, <<>>)
        ELSE IF leaveLast
        THEN Plan("", sets,
                  <<Msg("EditMessageReplyMarkupConfig", Text("", <<>>), "", <<>>),
                    Msg("MessageConfig", Text("Select target:", <<>>), "", kb)>>)
        ELSE Plan("", sets,
                  <<Msg("EditMessageTextConfig", Text("Select target:", <<>>), "", kb)>>)

\* A back button that leads to the jobs menu and drops the flag.
BackToJob_Plain(cb) == Callback("job", [job_name |-> MapGet(cb.data, "job_name")])

\* The callback of the "Go back" button under the alerts of a target
\* (377-385).
BackToJob(cb) ==
    Callback("job", [job_name |-> MapGet(cb.data, "job_name"),
                     leave_last_message |-> "yes"])

\* processCallbackQuery (313-506).
processCallbackQuery(cb, w, base) ==
    CASE cb.type = "job" ->
           Asked(TargetsQueries(w.targets, MapGet(cb.data, "job_name")),
                 TargetsMenu(cb, w, base, MapGet(cb.data, "leave_last_message") = "yes"))
      [] cb.type = "target" ->
           LET name == MapGet(cb.data, "target_name")
               al   == w.alerts[name]
               q    == <<Query("GetAlerts", <<"instance", name>>)>>
           IN  IF al = "error"
               THEN Asked(q, Plan("error getting alerts for target", <<>>, <<>>))
               ELSE IF al = "some" /\ ~applyTemplate(cfgAlertsTmpl, w)
               THEN Asked(q, Plan("error applying template", <<>>, <<>>))
               ELSE Asked(q, Plan("",
                         <<BackToJob(cb)>>,
                         <<Msg("EditMessageTextConfig",
                               IF al = "some"
                               THEN Text("GettableAlertsTemplatePath", <<name>>)
                               ELSE Text("No active alerts for ", <<name>>),
                               "HTML",
                               <<<<Button(Label("", "Go back"), base + 1)>>>>)>>))
      [] cb.type = "jobs" ->
           LET j == newJobsKB(w.jobs, w.alerts, base)
           IN  IF j.err THEN Asked(JobsQueries(w.jobs),
                                   Plan("error creating jobs menu", <<>>, <<>>))
               ELSE Asked(JobsQueries(w.jobs),
                          Plan("", j.sets,
                               <<Msg("EditMessageTextConfig", Text("Select job:", <<>>),
                                     "", j.kb)>>))
      [] cb.type = "targets" ->
           Asked(TargetsQueries(w.targets, MapGet(cb.data, "job_name")),
                 TargetsMenu(cb, w, base, FALSE))
      [] cb.type = "close" ->
           Plan("", <<>>, <<Msg("DeleteMessageConfig", Text("", <<>>), "", <<>>)>>)
      [] cb.type = "silence" ->
           LET q == <<PostSilences(
                        <<Matcher("instance", MapGet(cb.data, "instance"), FALSE),
                          Matcher("alertname", MapGet(cb.data, "alertname"), FALSE)>>,
                        w.clock[1], w.clock[2] + SilenceDuration)>>
           IN  IF ~w.postSilence
               THEN Asked(q, Plan("error posting new silence", <<>>, <<>>))
               ELSE Asked(q, Plan("", <<>>,
                     <<Msg("EditMessageReplyMarkupConfig", Text("", <<>>), "", <<>>),
                       Msg("MessageConfig",
                           Text("Created new silence:",
                                <<MapGet(cb.data, "instance"),
                                  MapGet(cb.data, "alertname")>>),
                           "HTML", <<>>)>>))
      [] OTHER -> Plan("", <<>>, <<>>)

CallbackWorlds(cb) ==
    CASE cb.type \in {"job", "targets"} -> TargetsWorlds
      [] cb.type = "target" ->
           {[NoWorld EXCEPT !.alerts = al, !.template = tm] :
               al \in [{MapGet(cb.data, "target_name")} -> AlertsAnswers],
               tm \in BOOLEAN}
      [] cb.type = "jobs" -> JobsWorlds
      [] cb.type = "silence" ->
           {[NoWorld EXCEPT !.postSilence = b, !.clock = c] : b \in BOOLEAN, c \in Clocks}
      [] OTHER -> {NoWorld}

\* A request to the HTTP server: its path, whether it is a POST, whether
\* its chatid parses, whether its body is the JSON of an alerttmpl.Data,
\* and of that data the status and the group labels asked for ("" when
\* the label is missing).
Request(path, post, chatid, json, status, instance, alertname) ==
    [path |-> path, post |-> post, chatid |-> chatid, json |-> json,
     status |-> status, instance |-> instance, alertname |-> alertname]

Requests ==
    {Request("/other", TRUE, TRUE, TRUE, "firing", "i1", "a1"),
     Request("/alerts", FALSE, TRUE, TRUE, "firing", "i1", "a1"),
     Request("/alerts", TRUE, FALSE, TRUE, "firing", "i1", "a1"),
     Request("/alerts", TRUE, TRUE, FALSE, "", "", "")}
        \cup {Request("/alerts", TRUE, TRUE, TRUE, st, i, a) :
                 st \in {"firing", "resolved"}, i \in {"", "i1"}, a \in {"", "a1"}}

\* A handler that takes every request as a well-formed one.
Refused_Never(req) == ""

\* handleHTTP's checks of the request (17-40): what it logs when it returns
\* at one of them, "" when the request passes.
Refused(req) ==
    IF req.path # "/alerts" THEN "wrong path"
    ELSE IF ~req.post THEN "wrong http method"
    ELSE IF ~req.chatid THEN "wrong chatid"
    ELSE IF ~req.json THEN "error unmarshalling post data"
    ELSE ""

\* A handler that adds the button to every message.
WantsSilence_Always(req) == TRUE

\* handleHTTP's condition for the silence button (63).
WantsSilence(req) ==
    req.status = "firing" /\ req.instance # "" /\ req.alertname # ""

\* handleHTTP (14-86); tmplOK is whether applyTemplate returns no error.
handleHTTP(req, tmplOK, base) ==
    IF Refused(req) # "" THEN Plan(Refused(req), <<>>, <<>>)
    ELSE IF cfgWebhookTmpl /\ ~tmplOK THEN Plan("error applying template", <<>>, <<>>)
    ELSE LET m0 == IF ~cfgWebhookTmpl
                   THEN Msg("MessageConfig",
                            Text("PostBody", <<req.status, req.instance, req.alertname>>),
                            "", <<>>)
                   ELSE Msg("MessageConfig",
                            Text("WebhookAlertsTemplatePath",
                                 <<req.status, req.instance, req.alertname>>),
                            "HTML", <<>>)
         IN  IF WantsSilence(req)
             THEN Plan("",
                       <<Callback("silence", [instance  |-> req.instance,
                                              alertname |-> req.alertname])>>,
                       <<[m0 EXCEPT !.kb = <<<<Button(Label("", "Silence"), base + 1)>>>>]>>)
             ELSE Plan("", <<>>, <<m0>>)

-----------------------------------------------------------------------------
(* The program: the update router, the HTTP server and the clock *)

\* What a handler leaves in the program: the callbacks of its plan are in
\* the cache under new keys. Every bot.Cache.Set of a handler comes before
\* its first call of sendMessage, so what the transport answers to the
\* messages changes nothing of it.
Handled(plan) ==
    /\ nextID + Len(plan.sets) <= MaxTokens
    /\ cache' = CacheSetAll(cache, nextID, plan.sets, now)
    /\ nextID' = nextID + Len(plan.sets)

\* A router that takes a message while a callback query is being handled.
HandleMessage_Anytime ==
    /\ \E m \in Messages : \E w \in MessageWorlds(m) :
         Handled(processMessage(m, w, nextID))
    /\ UNCHANGED <<cfgVars, now, rpc, rtok, rdata, cbLog>>

\* handleUpdates, update.Message or update.EditedMessage (37-50).
HandleMessage ==
    /\ rpc = "idle"
    /\ \E m \in Messages : \E w \in MessageWorlds(m) :
         Handled(processMessage(m, w, nextID))
    /\ UNCHANGED <<cfgVars, now, rpc, rtok, rdata, cbLog>>

\* A lookup whose error is not acted on: the callback query goes on to
\* bot.Cache.Remove and processCallbackQuery whether its key was found or not.
RecvCallback_DispatchAnyway ==
    /\ rpc = "idle"
    /\ Len(cbLog) < MaxCallbacks
    /\ \E t \in 0..nextID :
         LET found == CacheHas(cache, t, now)
         IN  /\ rtok' = t
             /\ rdata' = IF found THEN cache[t].data ELSE NoCallback
             /\ cache' = IF found THEN CacheTouch(cache, t, now) ELSE cache
             /\ rpc' = "got"
             /\ cbLog' = Append(cbLog, [tok |-> t, found |-> found, disp |-> 0])
    /\ UNCHANGED <<cfgVars, nextID, now>>

\* handleUpdates, update.CallbackQuery: bot.Cache.Get (53-57). The data may
\* be any key made so far, or 0, a key never made.
RecvCallback ==
    /\ rpc = "idle"
    /\ Len(cbLog) < MaxCallbacks
    /\ \E t \in 0..nextID :
         IF CacheHas(cache, t, now)
         THEN /\ rtok' = t
              /\ rdata' = cache[t].data
              /\ cache' = CacheTouch(cache, t, now)
              /\ rpc' = "got"
              /\ cbLog' = Append(cbLog, [tok |-> t, found |-> TRUE, disp |-> 0])
         ELSE /\ cbLog' = Append(cbLog, [tok |-> t, found |-> FALSE, disp |-> 0])
              /\ UNCHANGED <<rtok, rdata, cache, rpc>>
    /\ UNCHANGED <<cfgVars, nextID, now>>

\* handleUpdates: bot.Cache.Remove (58).
RemoveKey ==
    /\ rpc = "got"
    /\ cache' = CacheRemove(cache, rtok)
    /\ rpc' = "removed"
    /\ UNCHANGED <<cfgVars, nextID, now, rtok, rdata, cbLog>>

\* handleUpdates: json.Marshal of the Callback, which does not fail, and
\* processCallbackQuery (60-72).
Dispatch ==
    /\ rpc = "removed"
    /\ \E w \in CallbackWorlds(rdata) :
         Handled(processCallbackQuery(rdata, w, nextID))
    /\ cbLog' = [cbLog EXCEPT ![Len(cbLog)].disp = @ + 1]
    /\ rpc' = "idle"
    /\ rtok' = 0
    /\ rdata' = NoCallback
    /\ UNCHANGED <<cfgVars, now>>

\* srv.Handler: handleHTTP, on the server's goroutine, whatever the router
\* is doing.
HandleHTTP ==
    /\ \E req \in Requests, tmplOK \in BOOLEAN :
         Handled(handleHTTP(req, tmplOK, nextID))
    /\ UNCHANGED <<cfgVars, now, rpc, rtok, rdata, cbLog>>

\* Time passes, and the cache's expiration goroutine runs.
Tick ==
    /\ now < MaxTime
    /\ now' = now + 1
    /\ cache' = CacheSweep(cache, now + 1)
    /\ UNCHANGED <<cfgVars, nextID, rpc, rtok, rdata, cbLog>>

ChunkIdle == text = <<>> /\ chunks = <<>> /\ cpc = "idle"

RouterIdle == rpc = "idle" /\ rtok = 0 /\ rdata = NoCallback /\ cbLog = <<>>

\* The configuration main loads when nothing is configured.
CfgDefault ==
    /\ cfgRows = KeyboardRows
    /\ cfgWebhookTmpl = FALSE /\ cfgAlertsTmpl = FALSE /\ cfgSilencesTmpl = FALSE

CallIdle == hin = [call |-> "none"] /\ out = [call |-> "none"]

TakeIdle ==
    /\ hpc = [h \in 1..NumHandlers |-> "idle"]
    /\ htok = [h \in 1..NumHandlers |-> 0]
    /\ hgot = [h \in 1..NumHandlers |-> {}]

BotIdle ==
    /\ CfgDefault
    /\ cache = <<>> /\ nextID = 0 /\ now = 0
    /\ RouterIdle
    /\ TakeIdle
    /\ CallIdle

\* main (166-187): an empty cache, and the configuration as it was loaded.
Init ==
    /\ ChunkIdle
    /\ cfgRetry = 0
    /\ SendIdle
    /\ cfgRows = KeyboardRows
    /\ cfgWebhookTmpl \in BOOLEAN
    /\ cfgAlertsTmpl = cfgWebhookTmpl /\ cfgSilencesTmpl = cfgWebhookTmpl
    /\ cache = <<>> /\ nextID = 0 /\ now = 0
    /\ RouterIdle
    /\ TakeIdle
    /\ CallIdle

Next ==
    \/ HandleMessage /\ UNCHANGED <<chunkVars, sendVars, takeVars, callVars>>
    \/ RecvCallback /\ UNCHANGED <<chunkVars, sendVars, takeVars, callVars>>
    \/ RemoveKey /\ UNCHANGED <<chunkVars, sendVars, takeVars, callVars>>
    \/ Dispatch /\ UNCHANGED <<chunkVars, sendVars, takeVars, callVars>>
    \/ HandleHTTP /\ UNCHANGED <<chunkVars, sendVars, takeVars, callVars>>

Spec == Init /\ [][Next]_vars

-----------------------------------------------------------------------------
(* The router and the clock, over a cache that holds keys made at time 0 *)

\* The callbacks the program stores.
StoredCallbacks ==
    {Callback("close", EmptyMap), Callback("jobs", EmptyMap),
     Callback("job", [job_name |-> "j1"])}

\* The caches that hold a callback, set at time 0, under each of n keys.
CachesOf(n) == [1..n -> {Item(cb, 0) : cb \in StoredCallbacks}]

InitExpire ==
    /\ ChunkIdle
    /\ cfgRetry = 0
    /\ SendIdle
    /\ CfgDefault
    /\ nextID \in 1..MaxLive
    /\ cache \in CachesOf(nextID)
    /\ now = 0
    /\ RouterIdle
    /\ TakeIdle
    /\ CallIdle

NextExpire ==
    \/ Tick /\ UNCHANGED <<chunkVars, sendVars, takeVars, callVars>>
    \/ RecvCallback /\ UNCHANGED <<chunkVars, sendVars, takeVars, callVars>>
    \/ RemoveKey /\ UNCHANGED <<chunkVars, sendVars, takeVars, callVars>>
    \/ Dispatch /\ UNCHANGED <<chunkVars, sendVars, takeVars, callVars>>

SpecExpire == InitExpire /\ [][NextExpire]_vars

\* The same where time does pass and the router finishes the callback
\* query it has begun; whether any button is clicked is left open.
SpecAbandon ==
    /\ InitExpire
    /\ [][NextExpire]_vars
    /\ WF_vars(Tick /\ UNCHANGED <<chunkVars, sendVars, takeVars, callVars>>)
    /\ WF_vars(RemoveKey /\ UNCHANGED <<chunkVars, sendVars, takeVars, callVars>>)
    /\ WF_vars(Dispatch /\ UNCHANGED <<chunkVars, sendVars, takeVars, callVars>>)

-----------------------------------------------------------------------------
(* The lookup of handleUpdates run by several handlers at once *)

InitTake ==
    /\ ChunkIdle
    /\ cfgRetry = 0
    /\ SendIdle
    /\ CfgDefault
    /\ nextID \in 1..MaxLive
    /\ cache \in CachesOf(nextID)
    /\ now = 0
    /\ RouterIdle
    /\ TakeIdle
    /\ CallIdle

\* A handler at bot.Cache.Get (53-57).
TakeGet(h) ==
    /\ hpc[h] = "idle"
    /\ \E t \in 1..nextID :
         /\ htok' = [htok EXCEPT ![h] = t]
         /\ IF CacheHas(cache, t, now)
            THEN /\ cache' = CacheTouch(cache, t, now)
                 /\ hpc' = [hpc EXCEPT ![h] = "got"]
                 /\ hgot' = [hgot EXCEPT ![h] = @ \cup {t}]
            ELSE UNCHANGED <<cache, hpc, hgot>>
    /\ UNCHANGED <<cfgVars, nextID, now, rpc, rtok, rdata, cbLog>>

\* A handler at bot.Cache.Remove (58).
TakeRemove(h) ==
    /\ hpc[h] = "got"
    /\ cache' = CacheRemove(cache, htok[h])
    /\ hpc' = [hpc EXCEPT ![h] = "idle"]
    /\ UNCHANGED <<htok, hgot>>
    /\ UNCHANGED <<cfgVars, nextID, now, rpc, rtok, rdata, cbLog>>

NextTake ==
    \/ \E h \in 1..NumHandlers : TakeGet(h) /\ UNCHANGED <<chunkVars, sendVars, callVars>>
    \/ \E h \in 1..NumHandlers : TakeRemove(h) /\ UNCHANGED <<chunkVars, sendVars, callVars>>

SpecTake == InitTake /\ [][NextTake]_vars

-----------------------------------------------------------------------------
(* One call of processMessage, for every message and every answer of the   *)
(* upstream services, under every configuration of the two templates.      *)

\* What a call has done when its fail-th call of sendMessage returned an
\* error (0: none did) and it returned there: the error it returns, the
\* upstream calls it made, the callbacks it set, and the messages it handed
\* to sendMessage.
Outcome(call, plan, fail) ==
    [call    |-> call,
     err     |-> IF plan.err # "" THEN plan.err
                 ELSE IF fail > 0 THEN "error sending message" ELSE "",
     queries |-> plan.queries,
     sets    |-> plan.sets,
     sent    |-> IF fail > 0 THEN SubSeq(plan.msgs, 1, fail) ELSE plan.msgs]

InitMessage ==
    /\ ChunkIdle
    /\ cfgRetry = 0
    /\ SendIdle
    /\ cfgRows = KeyboardRows /\ cfgWebhookTmpl = FALSE
    /\ cfgAlertsTmpl \in BOOLEAN /\ cfgSilencesTmpl \in BOOLEAN
    /\ cache = <<>> /\ nextID = 0 /\ now = 0
    /\ RouterIdle
    /\ TakeIdle
    /\ \E m \in Messages : \E w \in MessageWorlds(m) :
         hin = [call |-> "processMessage", m |-> m, w |-> w]
    /\ out = [call |-> "none"]

CallProcessMessage ==
    /\ hin.call = "processMessage" /\ out.call = "none"
    /\ LET plan == processMessage(hin.m, hin.w, nextID)
       IN  /\ Handled(plan)
           /\ \E fail \in 0..Len(plan.msgs) :
                out' = Outcome("processMessage", plan, fail)
    /\ UNCHANGED <<cfgVars, now, rpc, rtok, rdata, cbLog, hin>>

NextMessage == CallProcessMessage /\ UNCHANGED <<chunkVars, sendVars, takeVars>>

SpecMessage == InitMessage /\ [][NextMessage]_vars

-----------------------------------------------------------------------------
(* One call of handleHTTP, for every request, with and without a webhook   *)
(* template, on a cache that may hold callbacks already.                   *)

InitWebhook ==
    /\ ChunkIdle
    /\ cfgRetry = 0
    /\ SendIdle
    /\ cfgRows = KeyboardRows
    /\ cfgWebhookTmpl \in BOOLEAN
    /\ cfgAlertsTmpl = FALSE /\ cfgSilencesTmpl = FALSE
    /\ \E n \in 0..MaxLive : cache \in CachesOf(n) /\ nextID = n
    /\ now = 0
    /\ RouterIdle
    /\ TakeIdle
    /\ \E req \in Requests, tmplOK \in BOOLEAN :
         hin = [call |-> "handleHTTP", req |-> req, tmplOK |-> tmplOK,
                cache |-> cache, base |-> nextID]
    /\ out = [call |-> "none"]

CallHandleHTTP ==
    /\ hin.call = "handleHTTP" /\ out.call = "none"
    /\ LET plan == handleHTTP(hin.req, hin.tmplOK, nextID)
       IN  /\ Handled(plan)
           /\ \E fail \in 0..Len(plan.msgs) :
                out' = Outcome("handleHTTP", plan, fail)
    /\ UNCHANGED <<cfgVars, now, rpc, rtok, rdata, cbLog, hin>>

NextWebhook == CallHandleHTTP /\ UNCHANGED <<chunkVars, sendVars, takeVars>>

SpecWebhook == InitWebhook /\ [][NextWebhook]_vars

-----------------------------------------------------------------------------
(* One call of newJobsKB or newTargetsKB, for every cfg.KeyboardRows from  *)
(* 0 to MaxKeyboardRows and up to three buttons.                           *)

\* v1api.LabelValues(ctx, "job", ...): an error or up to three job names.
MenuJobsAnswers ==
    {Failed, Ok(<<>>), Ok(<<"j1">>), Ok(<<"j1", "j2">>), Ok(<<"j1", "j2", "j3">>)}

\* v1api.Targets(ctx): an error or up to three targets, of one job or two,
\* in any order, some without an instance label or without a job label.
MenuTargetsAnswers ==
    {Failed, Ok(<<>>), Ok(<<Target("j1", "i1")>>),
     Ok(<<Target("j1", "i2"), Target("j1", "i1")>>),
     Ok(<<Target("j1", "i3"), Target("j1", "i1"), Target("j1", "i2")>>),
     Ok(<<Target("j1", "i2"), Target("j2", "i3"), Target("j1", "")>>),
     Ok(<<Target("j1", "i2"), Target("", "i1")>>)}

InitMenu ==
    /\ ChunkIdle
    /\ cfgRetry = 0
    /\ SendIdle
    /\ cfgRows \in 0..MaxKeyboardRows
    /\ cfgWebhookTmpl = FALSE /\ cfgAlertsTmpl = FALSE /\ cfgSilencesTmpl = FALSE
    /\ cache = <<>> /\ nextID = 0 /\ now = 0
    /\ RouterIdle
    /\ TakeIdle
    /\ \/ \E jobs \in MenuJobsAnswers, al \in [{"j1", "j2", "j3"} -> AlertsAnswers] :
            hin = [call |-> "newJobsKB", jobs |-> jobs, al |-> al]
       \/ \E targets \in MenuTargetsAnswers,
             al \in [{"", "i1", "i2", "i3"} -> AlertsAnswers] :
            hin = [call |-> "newTargetsKB", targets |-> targets, al |-> al,
                   jobName |-> "j1"]
    /\ out = [call |-> "none"]

\* What a builder returns, and the callbacks it has set on the way.
Built(call, res) ==
    /\ Handled(res)
    /\ out' = [call |-> call, err |-> res.err, kb |-> res.kb, sets |-> res.sets]

CallNewJobsKB ==
    /\ hin.call = "newJobsKB" /\ out.call = "none"
    /\ Built("newJobsKB", newJobsKB(hin.jobs, hin.al, nextID))
    /\ UNCHANGED <<cfgVars, now, rpc, rtok, rdata, cbLog, hin>>

CallNewTargetsKB ==
    /\ hin.call = "newTargetsKB" /\ out.call = "none"
    /\ Built("newTargetsKB", newTargetsKB(hin.targets, hin.al, hin.jobName, nextID))
    /\ UNCHANGED <<cfgVars, now, rpc, rtok, rdata, cbLog, hin>>

NextMenu ==
    \/ CallNewJobsKB /\ UNCHANGED <<chunkVars, sendVars, takeVars>>
    \/ CallNewTargetsKB /\ UNCHANGED <<chunkVars, sendVars, takeVars>>

SpecMenu == InitMenu /\ [][NextMenu]_vars

-----------------------------------------------------------------------------
(* One call of processCallbackQuery, for a callback of every type and      *)
(* every answer of the upstream services, on a cache the callback's own    *)
(* key has been removed from.                                              *)

\* The callbacks the program sets in the cache (part_003:328-331, 379-385,
\* 417-420; part_004:66-72, 439-444, 459-462, 524-529), and one of type
\* targets, which the handler has a case for.
Callbacks ==
    {Callback("job", [job_name |-> "j1"]),
     Callback("job", [job_name |-> "j1", leave_last_message |-> "yes"]),
     Callback("target", [job_name |-> "j1", target_name |-> "i1"]),
     Callback("jobs", EmptyMap),
     Callback("targets", [job_name |-> "j1"]),
     Callback("close", EmptyMap),
     Callback("silence", [instance |-> "i1", alertname |-> "a1"])}

InitCallback ==
    /\ ChunkIdle
    /\ cfgRetry = 0
    /\ SendIdle
    /\ cfgRows = KeyboardRows
    /\ cfgAlertsTmpl \in BOOLEAN
    /\ cfgWebhookTmpl = FALSE /\ cfgSilencesTmpl = FALSE
    /\ \E n \in {0, 1} : cache \in CachesOf(n) /\ nextID = n
    /\ now = 0
    /\ RouterIdle
    /\ TakeIdle
    \* from is the user of update.CallbackQuery.From, which handleUpdates
    \* writes to the log (68) and compares with nothing.
    /\ \E from \in Senders : \E cb \in Callbacks : \E w \in CallbackWorlds(cb) :
         hin = [call |-> "processCallbackQuery", from |-> from, cb |-> cb,
                w |-> w, cache |-> cache, base |-> nextID]
    /\ out = [call |-> "none"]

CallProcessCallbackQuery ==
    /\ hin.call = "processCallbackQuery" /\ out.call = "none"
    /\ LET plan == processCallbackQuery(hin.cb, hin.w, nextID)
       IN  /\ Handled(plan)
           /\ \E fail \in 0..Len(plan.msgs) :
                out' = Outcome("processCallbackQuery", plan, fail)
    /\ UNCHANGED <<cfgVars, now, rpc, rtok, rdata, cbLog, hin>>

NextCallback ==
    CallProcessCallbackQuery /\ UNCHANGED <<chunkVars, sendVars, takeVars>>

SpecCallback == InitCallback /\ [][NextCallback]_vars

-----------------------------------------------------------------------------
(* The loop of handleUpdates over a stream of MaxUpdates updates, each     *)
(* handled to its end before the next is taken.                            *)

\* An update of the channel: a message, or a callback query with its data.
UpdateMessage(m) == [kind |-> "message", m |-> m, tok |-> 0]

UpdateCallback(tok) == [kind |-> "callback", m |-> Message("", "", <<>>), tok |-> tok]

\* The updates of the streams: a message of a sender outside cfg.Users,
\* /alerts with a wrong argument, /alerts, /targets, and callback queries
\* with a key never made and with the first key made.
Updates ==
    {UpdateMessage(Message("guest", "help", <<>>)),
     UpdateMessage(Message("admin", "alerts", <<"x">>)),
     UpdateMessage(Message("admin", "alerts", <<>>)),
     UpdateMessage(Message("admin", "targets", <<>>)),
     UpdateCallback(0),
     UpdateCallback(1)}

\* What the loop logs of an update handled: the error, and how many
\* messages the handler handed to sendMessage.
Logged(o) == [err |-> o.err, sent |-> Len(o.sent)]

InitUpdates ==
    /\ ChunkIdle
    /\ cfgRetry = 0
    /\ SendIdle
    /\ cfgRows = KeyboardRows
    /\ cfgAlertsTmpl = TRUE
    /\ cfgWebhookTmpl = FALSE /\ cfgSilencesTmpl = FALSE
    /\ cache = <<>> /\ nextID = 0 /\ now = 0
    /\ RouterIdle
    /\ TakeIdle
    /\ \E updates \in [1..MaxUpdates -> Updates] :
         hin = [call |-> "handleUpdates", updates |-> updates]
    /\ out = [call |-> "handleUpdates", log |-> <<>>]

\* The update the loop is at.
NextUpdate == hin.updates[Len(out.log) + 1]

UpdatePending ==
    /\ hin.call = "handleUpdates"
    /\ Len(out.log) < Len(hin.updates)

\* A loop that is left at the first error of processMessage.
HandleUpdateMessage_StopAtError ==
    /\ UpdatePending
    /\ NextUpdate.kind = "message"
    /\ \A i \in 1..Len(out.log) : out.log[i].err = ""
    /\ \E w \in MessageWorlds(NextUpdate.m) :
         LET plan == processMessage(NextUpdate.m, w, nextID)
         IN  /\ Handled(plan)
             /\ \E fail \in 0..Len(plan.msgs) :
                  out' = [out EXCEPT !.log =
                             Append(@, Logged(Outcome("processMessage", plan, fail)))]
    /\ UNCHANGED <<cfgVars, now, rpc, rtok, rdata, cbLog, hin>>

\* handleUpdates, update.Message or update.EditedMessage (37-50): the error
\* of processMessage is logged and the loop continues.
HandleUpdateMessage ==
    /\ UpdatePending
    /\ NextUpdate.kind = "message"
    /\ \E w \in MessageWorlds(NextUpdate.m) :
         LET plan == processMessage(NextUpdate.m, w, nextID)
         IN  /\ Handled(plan)
             /\ \E fail \in 0..Len(plan.msgs) :
                  out' = [out EXCEPT !.log =
                             Append(@, Logged(Outcome("processMessage", plan, fail)))]
    /\ UNCHANGED <<cfgVars, now, rpc, rtok, rdata, cbLog, hin>>

\* handleUpdates, update.CallbackQuery (51-73): a key the cache does not
\* hold is logged; a key it holds is removed and its callback handled, and
\* the error of processCallbackQuery is logged. The loop continues.
HandleUpdateCallback ==
    /\ UpdatePending
    /\ NextUpdate.kind = "callback"
    /\ LET tok == NextUpdate.tok
       IN  IF ~CacheHas(cache, tok, now)
           THEN /\ out' = [out EXCEPT !.log =
                              Append(@, [err  |-> "error getting callback data from cache",
                                         sent |-> 0])]
                /\ UNCHANGED <<cache, nextID>>
           ELSE \E w \in CallbackWorlds(cache[tok].data) :
                  LET plan == processCallbackQuery(cache[tok].data, w, nextID)
                  IN  /\ nextID + Len(plan.sets) <= MaxTokens
                      /\ cache' = CacheSetAll(CacheRemove(CacheTouch(cache, tok, now), tok),
                                              nextID, plan.sets, now)
                      /\ nextID' = nextID + Len(plan.sets)
                      /\ \E fail \in 0..Len(plan.msgs) :
                           out' = [out EXCEPT !.log =
                                      Append(@, Logged(Outcome("processCallbackQuery",
                                                               plan, fail)))]
    /\ UNCHANGED <<cfgVars, now, rpc, rtok, rdata, cbLog, hin>>

NextUpdates ==
    \/ HandleUpdateMessage /\ UNCHANGED <<chunkVars, sendVars, takeVars>>
    \/ HandleUpdateCallback /\ UNCHANGED <<chunkVars, sendVars, takeVars>>

\* The loop runs as long as the channel has an update for it.
SpecUpdates ==
    /\ InitUpdates
    /\ [][NextUpdates]_vars
    /\ WF_vars(HandleUpdateMessage /\ UNCHANGED <<chunkVars, sendVars, takeVars>>)
    /\ WF_vars(HandleUpdateCallback /\ UNCHANGED <<chunkVars, sendVars, takeVars>>)

-----------------------------------------------------------------------------
(* The chunker alone: every text up to MaxTextLen, split once. *)

InitChunk ==
    /\ text \in Texts
    /\ chunks = <<>>
    /\ cpc = "call"
    /\ cfgRetry = 0
    /\ SendIdle
    /\ BotIdle

CallSplit ==
    /\ cpc = "call"
    /\ chunks' = splitStringIntoChunks(text)
    /\ cpc' = "done"
    /\ UNCHANGED text
    /\ UNCHANGED <<sendVars, botVars, takeVars, callVars>>

NextChunk == CallSplit

SpecChunk == InitChunk /\ [][NextChunk]_vars

-----------------------------------------------------------------------------
(* The dispatcher alone: one call of sendMessage, for every Chattable and  *)
(* every retry count, against a transport that answers as it likes.        *)

InitSend ==
    /\ ChunkIdle
    /\ cfgRetry \in 0..MaxRetryCount
    /\ msg \in Chattables
    /\ spc = "next"
    /\ ops = <<>> /\ attempts = <<>> /\ ri = 0 /\ serr = nil /\ err = nil
    /\ BotIdle

NextSend ==
    \/ IssueOp /\ UNCHANGED <<chunkVars, botVars, takeVars, callVars>>
    \/ Attempt /\ UNCHANGED <<chunkVars, botVars, takeVars, callVars>>
    \/ LoopExit /\ UNCHANGED <<chunkVars, botVars, takeVars, callVars>>
    \/ ReturnNil /\ UNCHANGED <<chunkVars, botVars, takeVars, callVars>>
    \/ ReturnUnsupported /\ UNCHANGED <<chunkVars, botVars, takeVars, callVars>>

SpecSend == InitSend /\ [][NextSend]_vars

-----------------------------------------------------------------------------
(* Claims about the session store and the router *)

\* C1: of the callback queries that carry a key the program has made, the
\* first one handled finds the key's data and is handed to
\* processCallbackQuery exactly once; every later one with the same key, and
\* every one with a key never made, finds nothing and is never handed on.
\* Once the first one has passed bot.Cache.Remove the key is out of the cache.
C1_FirstCallbackDispatchedOnce ==
    \A i \in 1..Len(cbLog) :
        LET e       == cbLog[i]
            first   == \A j \in 1..(i - 1) : cbLog[j].tok # e.tok
            handled == i < Len(cbLog) \/ rpc = "idle"
        IN  /\ e.found <=> (e.tok \in 1..nextID /\ first)
            /\ e.disp = IF e.found /\ handled THEN 1 ELSE 0
            /\ (e.found /\ (handled \/ rpc = "removed"))
                   => ~CacheHas(cache, e.tok, now)

\* C1 happens: a key was found and dispatched once, and a later callback
\* query with the same key found nothing.
C1_Witness ==
    /\ rpc = "idle"
    /\ \E i, j \in 1..Len(cbLog) :
         /\ i < j
         /\ cbLog[i].tok = cbLog[j].tok
         /\ cbLog[i].found /\ cbLog[i].disp = 1
         /\ ~cbLog[j].found /\ cbLog[j].disp = 0

\* C2: a key that no callback query consumed is gone once the store's TTL
\* has elapsed, for a TTL of some number of ticks up to MaxTime: a lookup of
\* a key that old answers ErrNotFound.
C2_UnconsumedGoneAfterTTL ==
    \E ttl \in 1..MaxTime :
        \A t \in DOMAIN cache :
            now - cache[t].setAt >= ttl => ~CacheHas(cache, t, now)

C27_EveryKeyEventuallyGone ==
    \A t \in 1..MaxTokens : (t \in DOMAIN cache) ~> ~(t \in DOMAIN cache)

\* The map keys a callback of each type is read for by its handler.
RequiredKeys(type) ==
    CASE type = "job" -> {"job_name"}
      [] type = "target" -> {"job_name", "target_name"}
      [] type = "silence" -> {"instance", "alertname"}
      [] OTHER -> {}

\* C30: every entry of the cache holds a callback whose type is one of job,
\* target, jobs, targets, close and silence and whose data has the keys of
\* that type; and as long as a key is in the cache the callback under it is
\* the one it was set with.
C30_EntriesWellFormed ==
    /\ [](\A k \in DOMAIN cache :
             /\ cache[k].data.type \in {"job", "target", "jobs", "targets",
                                         "close", "silence"}
             /\ RequiredKeys(cache[k].data.type) \subseteq DOMAIN cache[k].data.data)
    /\ [][\A k \in DOMAIN cache \cap DOMAIN cache' :
             cache'[k].data = cache[k].data]_vars

\* C30 happens: a callback query has looked a key up and found it, and the
\* cache holds a target callback next to the close callback of the menu
\* before.
C30_Witness ==
    /\ \E k \in DOMAIN cache : cache[k].data.type = "target"
    /\ \E k \in DOMAIN cache : cache[k].data.type = "close"
    /\ \E i \in 1..Len(cbLog) : cbLog[i].found

\* C31: the router handles one update at a time, in the order taken: a
\* callback query is taken, and a message handled, only when no callback
\* query is being handled, and a callback query being handled goes from its
\* lookup to its removal to its handler and nowhere else; every callback
\* query before the last has been handled to its end. A webhook request
\* can be handled at every point of that.
C31_OneUpdateAtATime ==
    /\ [](\A i \in 1..(Len(cbLog) - 1) : cbLog[i].found => cbLog[i].disp = 1)
    /\ [](ENABLED (HandleHTTP /\ UNCHANGED <<chunkVars, sendVars, takeVars, callVars>>))
    /\ [][/\ Len(cbLog') > Len(cbLog) => rpc = "idle"
          /\ (\E k \in DOMAIN cache' \ DOMAIN cache : cache'[k].data.type # "silence")
                => (rpc = "idle" /\ rpc' = "idle") \/ (rpc = "removed" /\ rpc' = "idle")
          /\ rpc = "got" => rpc' \in {"got", "removed"}
          /\ rpc = "removed" => rpc' \in {"removed", "idle"}
          /\ rpc = "idle" /\ rpc' # "idle" => rpc' = "got" /\ Len(cbLog') = Len(cbLog) + 1
       ]_vars

\* C31 happens: a second callback query is between its lookup and its
\* removal, the first has been handled to its end, and the cache holds the
\* callback of a webhook request.
C31_Witness ==
    /\ Len(cbLog) = 2
    /\ rpc = "got"
    /\ cbLog[1].found /\ cbLog[1].disp = 1
    /\ \E k \in DOMAIN cache : cache[k].data.type = "silence"

\* C32: the handler of a callback query whose sender is not in cfg.Users does
\* nothing: it asks Prometheus and Alertmanager nothing, posts no silence,
\* sets nothing in the cache and hands nothing to sendMessage.
C32_CallbackOfAllowedUserOnly ==
    (out.call = "processCallbackQuery" /\ hin.from \notin Users)
        => out.queries = <<>> /\ out.sets = <<>> /\ out.sent = <<>>

\* C33: for every cfg.SendMessageRetryCount, 0 included, sendMessage returns
\* nil only if every operation of the delivery was attempted at least once
\* and the last attempt of each was accepted.
C33_NilOnlyIfSent ==
    (spc = "done" /\ err = nil /\ msg.type # "Other")
        => /\ Len(ops) = Len(PlannedOps(msg))
           /\ \A i \in 1..Len(ops) : ops[i].sent /\ ops[i].res = nil

\* C36: with webhook requests handled at any point between the router's
\* lookup of a key and its removal, the only step that takes an entry out of
\* the cache is the router's removal, and it takes out the key it looked up
\* and no other; the entry a webhook request has set stays, with the
\* instance and alertname it was set with, until the router removes it for
\* a callback query with its key.
C36_ConsumeRemovesOnlyItsKey ==
    [][/\ \A k \in DOMAIN cache \ DOMAIN cache' :
            rpc = "got" /\ rpc' = "removed" /\ k = rtok
       /\ (rpc = "got" /\ rpc' = "removed") =>
            DOMAIN cache' = DOMAIN cache \ {rtok}
       /\ \A k \in DOMAIN cache :
            cache[k].data.type = "silence" =>
               \/ k \in DOMAIN cache' /\ cache'[k].data = cache[k].data
               \/ /\ rpc = "got" /\ k = rtok
                  /\ cbLog[Len(cbLog)].tok = k /\ rdata = cache[k].data
      ]_vars

\* C36 happens: the router has removed the key of a callback query, and the
\* entries of two webhook requests are in the cache as they were set.
C36_Witness ==
    /\ rpc = "removed"
    /\ rtok \notin DOMAIN cache
    /\ \E k, h \in DOMAIN cache :
         /\ k # h
         /\ cache[k].data.type = "silence" /\ cache[h].data.type = "silence"
         /\ RequiredKeys("silence") \subseteq DOMAIN cache[k].data.data

-----------------------------------------------------------------------------
(* Claims about processMessage *)

\* C11: a message of a sender who is not in cfg.Users gets the one fixed
\* rejection handed to sendMessage and nothing else: no upstream call, no
\* callback set, no key made, whatever its command and arguments.
C11_UnauthorizedRejected ==
    (out.call = "processMessage" /\ ~(hin.m.from \in Users)) =>
        /\ out.sent = <<Msg("MessageConfig",
                            Text("I can't talk to you, sorry.", <<>>), "", <<>>)>>
        /\ out.queries = <<>>
        /\ out.sets = <<>>
        /\ cache = <<>> /\ nextID = 0

\* C11 happens: a sender outside cfg.Users has sent /alerts.
C11_Witness ==
    /\ out.call = "processMessage"
    /\ ~(hin.m.from \in Users)
    /\ hin.m.command = "alerts"

\* The space-separated tokens of an argument string.
Tokens(args) == SelectSeq(Split(args, " "), LAMBDA piece : piece # <<>>)

AuthorizedArgCommand ==
    /\ out.call = "processMessage"
    /\ hin.m.from \in Users
    /\ hin.m.command \in ArgCommands

\* C12: /alerts and /silences of an authorized user with more than one
\* argument token are answered "Too many arguments.", and with one token
\* that is not json with an argument error; in both cases nothing is asked
\* of the alerting service.
C12_ArgumentErrors ==
    AuthorizedArgCommand =>
        LET tokens == Tokens(hin.m.args)
        IN  /\ Len(tokens) > 1 =>
                  /\ out.sent = Reply("Too many arguments.", <<>>).msgs
                  /\ out.queries = <<>>
            /\ (Len(tokens) = 1 /\ tokens[1] # JSON) =>
                  /\ \/ out.sent = Reply("Unknown argument.", <<>>).msgs
                     \/ out.sent = Reply("Too many arguments.", <<>>).msgs
                  /\ out.queries = <<>>

\* C12 happens: /silences with two argument tokens has been answered.
C12_Witness ==
    /\ AuthorizedArgCommand
    /\ hin.m.command = "silences"
    /\ hin.m.args = <<"x", " ", "x">>

\* A valid /alerts or /silences whose query returned at least one item.
ValidWithItems ==
    /\ AuthorizedArgCommand
    /\ CheckArgs(hin.m.args) = ""
    /\ \/ hin.m.command = "alerts" /\ hin.w.allAlerts = "some"
       \/ /\ hin.m.command = "silences"
          /\ ~hin.w.silences.err
          /\ \E i \in 1..Len(hin.w.silences.val) : hin.w.silences.val[i] = "active"

IsRaw(m) == m.text.words = "json.MarshalIndent" /\ m.parseMode = ""

IsTemplated(m) ==
    /\ m.text.words \in {"GettableAlertsTemplatePath", "SilencesTemplatePath"}
    /\ m.parseMode = "HTML"

C14_RawIffJsonOrNoTemplate ==
    ValidWithItems =>
        LET json    == Split(hin.m.args, " ")[1] = JSON
            tmplSet == IF hin.m.command = "silences" THEN cfgSilencesTmpl
                       ELSE cfgAlertsTmpl
            tmpl    == IF hin.m.command = "silences" THEN "SilencesTemplatePath"
                       ELSE "GettableAlertsTemplatePath"
        IN  IF json \/ ~tmplSet
            THEN Len(out.sent) = 1 /\ IsRaw(out.sent[1])
            ELSE \/ /\ Len(out.sent) = 1
                    /\ IsTemplated(out.sent[1])
                    /\ out.sent[1].text.words = tmpl
                 \/ /\ out.sent = <<>>
                    /\ ~hin.w.template
                    /\ out.err = "error applying template"

\* C15: a callback query whose key the cache does not hold is dropped at the
\* lookup: the step leaves the cache and the keys made as they were, hands
\* nothing to bot.Cache.Remove or processCallbackQuery (the router is back at
\* the next update, where alone upstream calls and sends are made), and a
\* callback query that found nothing is never dispatched later either.
C15_UnknownKeyDropped ==
    [][ /\ (/\ Len(cbLog') = Len(cbLog) + 1
            /\ ~(cbLog'[Len(cbLog')].tok \in DOMAIN cache))
           => /\ cache' = cache
              /\ nextID' = nextID
              /\ rpc' = "idle"
              /\ rtok' = rtok /\ rdata' = rdata
              /\ cbLog'[Len(cbLog')].disp = 0
        /\ \A i \in 1..Len(cbLog) :
             ~cbLog[i].found /\ i <= Len(cbLog') => cbLog'[i].disp = 0
      ]_vars

\* C15 happens: a callback query carried a key that had been made and
\* consumed before, found nothing, and the router has gone on to a later
\* update.
C15_Witness ==
    /\ rpc = "idle"
    /\ cache # <<>>
    /\ \E i, j \in 1..Len(cbLog) :
         /\ i < j
         /\ cbLog[i].tok = cbLog[j].tok
         /\ cbLog[i].found /\ ~cbLog[j].found

\* C28: a command of an authorized user whose handling fails at a call of
\* the alerting or monitoring service, or at the template, has at least one
\* message handed to sendMessage for the chat.
C28_FailureReported ==
    (/\ out.call = "processMessage"
     /\ hin.m.from \in Users
     /\ ~(out.err \in {"", "error sending message"})) => Len(out.sent) >= 1

-----------------------------------------------------------------------------
(* Claims about handleHTTP *)

\* The buttons of the messages, row by row.
RECURSIVE Flatten(_)
Flatten(seqs) == IF seqs = <<>> THEN <<>> ELSE Head(seqs) \o Flatten(Tail(seqs))

ButtonsOf(msgs) == Flatten([i \in 1..Len(msgs) |-> Flatten(msgs[i].kb)])

\* The cache holds what it held before the call, and n more keys.
CacheGrewBy(n) ==
    /\ nextID = hin.base + n
    /\ DOMAIN cache = 1..(hin.base + n)
    /\ \A k \in 1..hin.base : cache[k] = hin.cache[k]

\* C16: the message handleHTTP hands to sendMessage carries exactly one
\* button, whose data is the key of one new cache entry holding a silence
\* callback with the group's instance and alertname, if and only if the
\* status is firing and both group labels are non-empty; in every other case
\* there is no button and no new cache entry. A request that yields no
\* message (refused, or the template fails) sets nothing either.
C16_SilenceButtonIffFiringLabelled ==
    out.call = "handleHTTP" =>
        LET req     == hin.req
            buttons == ButtonsOf(out.sent)
        IN  IF /\ Len(out.sent) = 1
               /\ req.status = "firing" /\ req.instance # "" /\ req.alertname # ""
            THEN /\ Len(buttons) = 1
                 /\ buttons[1].text = Label("", "Silence")
                 /\ buttons[1].data = hin.base + 1
                 /\ CacheGrewBy(1)
                 /\ cache[buttons[1].data].data =
                        Callback("silence", [instance  |-> req.instance,
                                             alertname |-> req.alertname])
            ELSE /\ Len(out.sent) <= 1
                 /\ buttons = <<>>
                 /\ out.sets = <<>>
                 /\ CacheGrewBy(0)

\* C16 happens: a firing group with both labels got its button, on a cache
\* that held callbacks before.
C16_Witness ==
    /\ out.call = "handleHTTP"
    /\ hin.base > 0
    /\ hin.req.status = "firing" /\ hin.req.instance = "i1" /\ hin.req.alertname = "a1"
    /\ Len(ButtonsOf(out.sent)) = 1

\* C17: a request to /alerts that is not a POST, whose chatid does not
\* parse, or whose body is not the JSON of an alert group, is dropped:
\* nothing is handed to sendMessage and nothing is set in the cache, with
\* and without a webhook template.
C17_MalformedDropped ==
    (/\ out.call = "handleHTTP"
     /\ hin.req.path = "/alerts"
     /\ (~hin.req.post \/ ~hin.req.chatid \/ ~hin.req.json)) =>
        /\ out.sent = <<>>
        /\ out.sets = <<>>
        /\ out.queries = <<>>
        /\ CacheGrewBy(0)

\* C17 happens: with a webhook template configured that would apply, a
\* request with an unparsable chatid has been handled.
C17_Witness ==
    /\ out.call = "handleHTTP"
    /\ cfgWebhookTmpl /\ hin.tmplOK
    /\ hin.req.path = "/alerts" /\ hin.req.post /\ ~hin.req.chatid

-----------------------------------------------------------------------------
(* Claims about newJobsKB and newTargetsKB *)

JobsBuilt == out.call = "newJobsKB" /\ ~out.err

MenuBuilt == out.call \in {"newJobsKB", "newTargetsKB"} /\ ~out.err

\* The job names whose GetAlerts returned no error, in the order returned.
LookedUp == SelectSeq(hin.jobs.val, LAMBDA l : hin.al[l] # "error")

FailedLookups == {i \in 1..Len(hin.jobs.val) : hin.al[hin.jobs.val[i]] = "error"}

\* C18: a jobs keyboard built without error has as many job buttons as job
\* names were returned less those whose GetAlerts failed; the data of each
\* is a key of its own under which the cache holds a job callback with
\* job_name that job; and its last row is one "Close menu" button whose key
\* holds a close callback, also when there is no job button.
C18_JobsMenuButtons ==
    JobsBuilt =>
        /\ Len(out.kb) >= 1
        /\ LET jobButtons == Flatten(SubSeq(out.kb, 1, Len(out.kb) - 1))
               last       == out.kb[Len(out.kb)]
           IN  /\ Len(jobButtons) = Len(hin.jobs.val) - Cardinality(FailedLookups)
               /\ Len(jobButtons) = Len(LookedUp)
               /\ \A i \in 1..Len(jobButtons) :
                    /\ jobButtons[i].text.name = LookedUp[i]
                    /\ jobButtons[i].data \in DOMAIN cache
                    /\ cache[jobButtons[i].data].data =
                           Callback("job", [job_name |-> LookedUp[i]])
                    /\ \A j \in 1..Len(jobButtons) :
                         i # j => jobButtons[i].data # jobButtons[j].data
                    /\ jobButtons[i].data # last[1].data
               /\ Len(last) = 1
               /\ last[1].text = Label("", "Close menu")
               /\ last[1].data \in DOMAIN cache
               /\ cache[last[1].data].data = Callback("close", EmptyMap)
               /\ Cardinality(DOMAIN cache) = Len(jobButtons) + 1

\* C18 happens: of three job names one lookup failed, and the keyboard has
\* been built.
C18_Witness ==
    /\ JobsBuilt
    /\ Len(hin.jobs.val) = 3
    /\ Cardinality(FailedLookups) = 1

\* The rows the loop of a builder has laid its buttons out in.
MenuRows ==
    IF out.call = "newJobsKB" THEN SubSeq(out.kb, 1, Len(out.kb) - 1) ELSE out.kb

\* C19: in a keyboard built by newJobsKB or newTargetsKB no row of job or
\* target buttons has more buttons than cfg.KeyboardRows, for every
\* cfg.KeyboardRows and every number of buttons.
C19_RowsWithinSize ==
    MenuBuilt => \A i \in 1..Len(MenuRows) : Len(MenuRows[i]) <= cfgRows

\* The alert answer for the job or instance a menu button is named by.
AlertsFor(b) == hin.al[b.text.name]

\* The buttons of the menu that stand for a job or a target.
MenuButtons ==
    IF out.call = "newJobsKB" THEN Flatten(SubSeq(out.kb, 1, Len(out.kb) - 1))
    ELSE Flatten(out.kb)

\* C20: a job's or target's button carries cfg.ButtonPrefixOK exactly when
\* GetAlerts for it returned no alert, and cfg.ButtonPrefixFail exactly when
\* it returned at least one.
C20_PrefixByAlerts ==
    MenuBuilt =>
        \A i \in 1..Len(MenuButtons) :
            LET b == MenuButtons[i]
            IN  /\ b.text.prefix = "ButtonPrefixOK" <=> AlertsFor(b) = "none"
                /\ b.text.prefix = "ButtonPrefixFail" <=> AlertsFor(b) = "some"

\* C20 happens: a menu shows one button of each kind.
C20_Witness ==
    /\ MenuBuilt
    /\ \E i, j \in 1..Len(MenuButtons) :
         /\ AlertsFor(MenuButtons[i]) = "none"
         /\ AlertsFor(MenuButtons[j]) = "some"

TargetsBuilt == out.call = "newTargetsKB" /\ ~out.err

\* The positions in the answer of Targets of the targets of the job asked
\* for whose GetAlerts returned no error.
Shown ==
    {i \in 1..Len(hin.targets.val) :
        /\ hin.targets.val[i].job = hin.jobName
        /\ hin.al[hin.targets.val[i].instance] # "error"}

\* C21: the buttons of a targets keyboard built without error for the job J
\* are, one for one, the targets returned with job label J whose GetAlerts
\* did not fail; they stand in ascending order of the instance label; and
\* the data of each is a key under which the cache holds a target callback
\* with job_name J and target_name the target's instance.
C21_TargetsMenuButtons ==
    TargetsBuilt =>
        LET buttons == Flatten(out.kb)
        IN  /\ Len(buttons) = Cardinality(Shown)
            /\ {buttons[i].text.name : i \in 1..Len(buttons)} =
                   {hin.targets.val[i].instance : i \in Shown}
            /\ \A i, j \in 1..Len(buttons) :
                 i < j => InstanceRank(buttons[i].text.name)
                              <= InstanceRank(buttons[j].text.name)
            /\ \A i \in 1..Len(buttons) :
                 /\ buttons[i].data \in DOMAIN cache
                 /\ cache[buttons[i].data].data =
                        Callback("target", [job_name    |-> hin.jobName,
                                            target_name |-> buttons[i].text.name])
            /\ Cardinality(DOMAIN cache) = Len(buttons)

\* C21 happens: three targets of the job came unsorted, all lookups
\* succeeded, and the keyboard has been built.
C21_Witness ==
    /\ TargetsBuilt
    /\ Len(hin.targets.val) = 3
    /\ Cardinality(Shown) = 3
    /\ hin.targets.val[1].instance = "i3"

\* C22: a target returned without a job label or without an instance label
\* gets no button and no cache entry, and the keyboard is still built.
C22_UnlabelledSkipped ==
    out.call = "newTargetsKB" /\ ~hin.targets.err =>
        /\ ~out.err
        /\ \A i \in 1..Len(hin.targets.val) :
             LET t == hin.targets.val[i]
             IN  (t.job = "" \/ t.instance = "") =>
                   /\ \A k \in 1..Len(Flatten(out.kb)) :
                        Flatten(out.kb)[k].text.name # t.instance
                   /\ \A k \in DOMAIN cache :
                        MapGet(cache[k].data.data, "target_name") # t.instance

\* The job names or targets a menu is asked to show.
MenuItems ==
    IF hin.call = "newJobsKB" THEN hin.jobs.val
    ELSE [i \in 1..Len(SelectSeq(hin.targets.val, LAMBDA t : t.job = hin.jobName)) |->
             SelectSeq(hin.targets.val, LAMBDA t : t.job = hin.jobName)[i].instance]

TopLevelFailed ==
    IF hin.call = "newJobsKB" THEN hin.jobs.err ELSE hin.targets.err

\* C23: when GetAlerts fails for a job or a target, the builder still
\* returns a keyboard, in which exactly the items whose GetAlerts failed
\* have no button and no cache entry; when LabelValues or Targets fails,
\* the builder returns an error, no keyboard, and has set nothing.
C23_PartialAndFatalFailures ==
    out.call \in {"newJobsKB", "newTargetsKB"} =>
        IF TopLevelFailed
        THEN out.err /\ out.kb = <<>> /\ out.sets = <<>> /\ cache = <<>>
        ELSE /\ ~out.err
             /\ \A i \in 1..Len(MenuItems) :
                  LET name == MenuItems[i]
                      kind == IF hin.call = "newJobsKB" THEN "job_name" ELSE "target_name"
                  IN  /\ (\E k \in 1..Len(MenuButtons) : MenuButtons[k].text.name = name)
                          <=> hin.al[name] # "error"
                      /\ (\E k \in DOMAIN cache :
                             MapGet(cache[k].data.data, kind) = name)
                          <=> hin.al[name] # "error"

\* C23 happens: of three jobs the lookup of the first failed and the
\* keyboard shows the other two.
C23_Witness ==
    /\ JobsBuilt
    /\ Len(hin.jobs.val) = 3
    /\ hin.al["j1"] = "error" /\ hin.al["j2"] # "error" /\ hin.al["j3"] # "error"
    /\ Len(MenuButtons) = 2

-----------------------------------------------------------------------------
(* Claims about processCallbackQuery *)

CallbackHandled(type) ==
    out.call = "processCallbackQuery" /\ hin.cb.type = type

\* C24: a target callback whose GetAlerts returns no alert hands one edit
\* of the originating message to sendMessage, with the text "No active
\* alerts for " and the instance, and a keyboard of one button; the
\* button's data is a new key under which the cache holds a job callback
\* with the job_name of the callback handled and leave_last_message "yes".
C24_NoAlertsForTarget ==
    (/\ CallbackHandled("target")
     /\ hin.w.alerts[hin.cb.data.target_name] = "none") =>
        /\ Len(out.sent) = 1
        /\ out.sent[1].type = "EditMessageTextConfig"
        /\ out.sent[1].text = Text("No active alerts for ", <<hin.cb.data.target_name>>)
        /\ Len(ButtonsOf(out.sent)) = 1
        /\ ButtonsOf(out.sent)[1].data = hin.base + 1
        /\ CacheGrewBy(1)
        /\ cache[hin.base + 1].data.type = "job"
        /\ MapGet(cache[hin.base + 1].data.data, "job_name") = hin.cb.data.job_name
        /\ MapGet(cache[hin.base + 1].data.data, "leave_last_message") = "yes"

\* C24 happens: a target callback met no alert, on a cache that held
\* another callback.
C24_Witness ==
    /\ CallbackHandled("target")
    /\ hin.w.alerts[hin.cb.data.target_name] = "none"
    /\ hin.base = 1
    /\ out.err = ""

\* C25: a job callback handled without error has set the callbacks of the
\* targets menu of its job and, last, a jobs callback under a new key,
\* which the one button of the menu's last row carries. With
\* leave_last_message "yes" it hands to sendMessage first the removal of the
\* originating message's keyboard and then the menu as a new message; else
\* it hands it the menu as an edit of the originating message, and no new
\* message.
C25_JobCallbackMenu ==
    (CallbackHandled("job") /\ out.err = "") =>
        LET menu == out.sent[Len(out.sent)]
            last == menu.kb[Len(menu.kb)]
            rest == Flatten(SubSeq(menu.kb, 1, Len(menu.kb) - 1))
        IN  /\ menu.text = Text("Select target:", <<>>)
            /\ Len(last) = 1
            /\ last[1].text = Label("", "Go back")
            /\ last[1].data = nextID
            /\ ~(last[1].data \in DOMAIN hin.cache)
            /\ cache[last[1].data].data = Callback("jobs", EmptyMap)
            /\ CacheGrewBy(Len(rest) + 1)
            /\ \A i \in 1..Len(rest) :
                 /\ cache[rest[i].data].data.type = "target"
                 /\ cache[rest[i].data].data.data.job_name = hin.cb.data.job_name
            /\ IF MapGet(hin.cb.data, "leave_last_message") = "yes"
               THEN /\ Len(out.sent) = 2
                    /\ out.sent[1] = Msg("EditMessageReplyMarkupConfig",
                                         Text("", <<>>), "", <<>>)
                    /\ menu.type = "MessageConfig"
               ELSE /\ Len(out.sent) = 1
                    /\ menu.type = "EditMessageTextConfig"

\* C25 happens: a job callback with leave_last_message "yes" has sent a
\* menu of two targets.
C25_Witness ==
    /\ CallbackHandled("job")
    /\ out.err = ""
    /\ MapGet(hin.cb.data, "leave_last_message") = "yes"
    /\ Len(ButtonsOf(out.sent)) = 3

\* C26: a silence callback submits exactly one silence, with the two
\* matchers instance and alertname of the callback, neither a regex, and an
\* end time that is its start time plus cfg.SilenceDuration; when the
\* submission succeeds it hands to sendMessage the removal of the
\* originating message's keyboard and, after that, the report; when the
\* submission fails it hands it nothing.
C26_SilencePosted ==
    CallbackHandled("silence") =>
        /\ Len(out.queries) = 1
        /\ out.queries[1].method = "PostSilences"
        /\ out.queries[1].matchers =
               <<Matcher("instance", hin.cb.data.instance, FALSE),
                 Matcher("alertname", hin.cb.data.alertname, FALSE)>>
        /\ out.queries[1].endsAt = out.queries[1].startsAt + SilenceDuration
        /\ IF hin.w.postSilence
           THEN /\ Len(out.sent) >= 1
                /\ out.sent[1].type = "EditMessageReplyMarkupConfig"
                /\ out.sent[1].kb = <<>>
                /\ Len(out.sent) = 2 => out.sent[2].text.words = "Created new silence:"
                /\ Len(out.sent) <= 2
           ELSE out.sent = <<>>

-----------------------------------------------------------------------------
(* Claims about the loop of handleUpdates *)

\* C29: whatever the handling of an update ends with (the rejection of the
\* sender, an argument error, an error of an upstream call or of the
\* template, a key the cache does not hold, an error of sendMessage), the
\* loop goes on to the next update, so every update of the stream is
\* eventually handled.
C29_RouterGoesOn ==
    <>(hin.call = "handleUpdates" /\ Len(out.log) = Len(hin.updates))

\* C29 happens: the first update ended with an upstream error, the second
\* with a key not found, and the third has been handled too.
C29_Witness ==
    /\ hin.call = "handleUpdates"
    /\ Len(out.log) = MaxUpdates
    /\ out.log[1].err = "error getting alerts"
    /\ out.log[2].err = "error getting callback data from cache"

\* The j-th update of the stream is a /targets whose menu was built.
BuiltMenu(j) ==
    /\ hin.updates[j].kind = "message"
    /\ hin.updates[j].m.command = "targets"
    /\ out.log[j].err \in {"", "error sending message"}

\* The i-th update is a click on a button that the chat shows: a callback
\* query whose key the cache held, the key being the first one made, by the
\* first /targets that built a menu, whose message was delivered.
Clicked(i) ==
    /\ hin.updates[i].kind = "callback"
    /\ out.log[i].err # "error getting callback data from cache"
    /\ \E j \in 1..(i - 1) :
         /\ BuiltMenu(j) /\ out.log[j].err = ""
         /\ \A h \in 1..(j - 1) : ~BuiltMenu(h)

\* C35: a button of a message that is still in the chat with the keyboard it
\* was sent with has its key in the cache: when the handler of a clicked
\* button has handed nothing to sendMessage, so that the menu is as it was,
\* the key of the clicked button is still in the cache.
C35_ShownButtonHasKey ==
    hin.call = "handleUpdates" =>
        \A i \in 1..Len(out.log) :
            (Clicked(i) /\ out.log[i].sent = 0)
                => hin.updates[i].tok \in DOMAIN cache

-----------------------------------------------------------------------------
(* Claims about splitStringIntoChunks *)

\* C4: no chunk returned by splitStringIntoChunks is longer than
\* maxMessageTextLength, whatever the text, a text with a single line
\* longer than the limit included.
C4_NoChunkOverLimit ==
    cpc = "done" =>
        \A i \in 1..Len(chunks) : Len(chunks[i]) <= maxMessageTextLength

\* C5: the chunks put back together, in order, are the text: either one
\* after the other, or with a newline restored between two chunks.
C5_RejoinIsText ==
    cpc = "done" => (Concat(chunks) = text \/ Join(chunks, NL) = text)

\* The lines a chunk holds: the code writes every line after a newline, so
\* a chunk is "\n" l1 "\n" l2 ..., and the empty chunk holds no line.
ChunkLines(c) == IF c = <<>> THEN <<>> ELSE Tail(Split(c, NL))

RECURSIVE AllChunkLines(_)
AllChunkLines(cs) ==
    IF cs = <<>> THEN <<>> ELSE ChunkLines(Head(cs)) \o AllChunkLines(Tail(cs))

\* C6: every chunk is a run of whole consecutive lines of the text, each
\* written after its newline; the lines of the chunks, in chunk order, are
\* the lines of the text, in order, each once: no line is cut in two.
C6_WholeLinesInOrder ==
    cpc = "done" =>
        /\ \A i \in 1..Len(chunks) : chunks[i] # <<>> => chunks[i][1] = NL
        /\ AllChunkLines(chunks) = Split(text, NL)

\* C6's case: a text of several lines that is split into several chunks,
\* one of them holding more than one line.
C6_Witness ==
    /\ cpc = "done"
    /\ Len(chunks) > 1
    /\ Len(Split(text, NL)) > Len(chunks)
    /\ \E i \in 1..Len(chunks) : Len(ChunkLines(chunks[i])) > 1

-----------------------------------------------------------------------------
(* Claims about sendMessage *)

IsPrefix(a, b) == Len(a) <= Len(b) /\ \A i \in 1..Len(a) : a[i] = b[i]

\* The chunks of the text of the Chattable sendMessage was called with.
MsgChunks == splitStringIntoChunks(msg.text)

\* The Go types of the operations handed to send so far.
OpTypes == [i \in 1..Len(ops) |-> ops[i].op.type]

\* What an edit resolves to: a delete and one send per chunk when there are
\* several chunks, one edit otherwise.
EditTypes ==
    IF Len(MsgChunks) > 1
    THEN <<"DeleteMessageConfig">> \o [i \in 1..Len(MsgChunks) |-> "MessageConfig"]
    ELSE <<"EditMessageTextConfig">>

\* Every operation before the last one handed to send returned nil, and when
\* sendMessage has returned with operations left, the last one failed and
\* its error is the one returned.
CutOnlyAtFailure(planned) ==
    /\ \A i \in 1..(Len(ops) - 1) : ops[i].res = nil
    /\ (spc = "done" /\ Len(ops) < planned) =>
            /\ Len(ops) >= 1
            /\ ops[Len(ops)].res # nil
            /\ err = ops[Len(ops)].res
    /\ (spc = "done" /\ err = nil) => Len(ops) = planned

\* C7, as first stated: an edit of N > 1 chunks is always one delete and
\* then N sends, an edit of one chunk always one edit.
C7_EditAlwaysDeleteAndNSends ==
    (spc = "done" /\ msg.type = "EditMessageTextConfig") => OpTypes = EditTypes

\* C7, amended: for an edit of N > 1 chunks the operations are the delete
\* and then the sends of the chunks, never an edit, stopped only after an
\* operation that returned an error, so one delete and N sends when none
\* does; for an edit of one chunk they are that one edit, as given.
C7_EditDeleteThenSendsUntilFailure ==
    msg.type = "EditMessageTextConfig" =>
        /\ IsPrefix(OpTypes, EditTypes)
        /\ spc = "done" => Len(ops) >= 1
        /\ CutOnlyAtFailure(Len(EditTypes))
        /\ (Len(MsgChunks) = 1 /\ Len(ops) >= 1) => ops[1].op = msg

\* C7's case: an edit of three chunks, delivered: the delete, then three
\* sends, each accepted by the transport.
C7_Witness ==
    /\ spc = "done" /\ err = nil
    /\ msg.type = "EditMessageTextConfig"
    /\ Len(MsgChunks) = 3
    /\ OpTypes = <<"DeleteMessageConfig", "MessageConfig", "MessageConfig",
                   "MessageConfig">>
    /\ \A i \in 1..Len(ops) : ops[i].sent

\* The sends of chunks among the operations: all of them for a new message,
\* those after the delete for an edit of several chunks.
HasChunkSends ==
    \/ msg.type = "MessageConfig"
    \/ msg.type = "EditMessageTextConfig" /\ Len(MsgChunks) > 1

ChunkSends == IF msg.type = "MessageConfig" \/ ops = <<>> THEN ops ELSE Tail(ops)

\* The i-th send is the i-th chunk, with the ParseMode asked for, and with
\* the keyboard if and only if it is the last chunk.
ChunkSendsAreChunks ==
    \A i \in 1..Len(ChunkSends) :
        /\ i <= Len(MsgChunks)
        /\ ChunkSends[i].op.type = "MessageConfig"
        /\ ChunkSends[i].op.text = MsgChunks[i]
        /\ ChunkSends[i].op.parseMode = msg.parseMode
        /\ ChunkSends[i].op.markup = IF i = Len(MsgChunks) THEN msg.markup ELSE "none"

\* C8, as first stated: the N chunks are always sent as N messages, in
\* order, the keyboard on the last only.
C8_AlwaysNMessages ==
    (spc = "done" /\ HasChunkSends) =>
        Len(ChunkSends) = Len(MsgChunks) /\ ChunkSendsAreChunks

\* C8, amended: the messages sent are the chunks in chunk order, one message
\* per chunk, stopped only after a send that returned an error (all N when
\* none does), and the keyboard is on the N-th message and on no other; the
\* same for the sends after the delete of an edit.
C8_ChunksInOrderKeyboardOnLast ==
    HasChunkSends =>
        /\ ChunkSendsAreChunks
        /\ CutOnlyAtFailure(Len(PlannedOps(msg)))

\* C8's case: a new message of three chunks with a keyboard, delivered.
C8_Witness ==
    /\ spc = "done" /\ err = nil
    /\ msg.type = "MessageConfig" /\ msg.markup = "kb"
    /\ Len(MsgChunks) = 3 /\ Len(ops) = 3
    /\ ops[1].op.markup = "none" /\ ops[2].op.markup = "none"
    /\ ops[3].op.markup = "kb"
    /\ \A i \in 1..3 : ops[i].sent

\* The i-th operation has gone to the transport at least once.
Attempted(i) ==
    ops[i].sent \/ (i = Len(ops) /\ attempts # <<>>)

\* The i-th operation has ended with an error.
OpFailed(i) ==
    ops[i].res # nil /\ ops[i].res.kind # "pending"

\* C34: in a delivery of several operations an operation that ends with an
\* error is the last one issued: sendMessage returns that error, and every
\* operation before it was sent and accepted. In the delete-and-resend of an
\* edit no chunk goes to the transport unless the delete was sent and
\* accepted.
C34_StopAtFirstFailure ==
    HasChunkSends =>
        /\ \A i \in 1..Len(ops) :
             OpFailed(i) =>
                /\ i = Len(ops)
                /\ spc = "done" /\ err = ops[i].res
                /\ \A j \in 1..(i - 1) : ops[j].sent /\ ops[j].res = nil
        /\ msg.type = "EditMessageTextConfig" =>
             \A k \in 2..Len(ops) :
                Attempted(k) => ops[1].sent /\ ops[1].res = nil

\* C34 happens: an edit of three chunks whose delete and first chunk were
\* accepted and whose second chunk failed; the third chunk was never issued.
C34_Witness ==
    /\ spc = "done"
    /\ msg.type = "EditMessageTextConfig"
    /\ Len(MsgChunks) = 3
    /\ Len(ops) = 3
    /\ ops[1].sent /\ ops[1].res = nil
    /\ ops[2].sent /\ ops[2].res = nil
    /\ OpFailed(3) /\ err = ops[3].res

\* C34 happens too: the delete of an edit of several chunks failed, and no
\* chunk was issued.
C34_DeleteFailed ==
    /\ spc = "done"
    /\ msg.type = "EditMessageTextConfig"
    /\ Len(MsgChunks) > 1
    /\ Len(ops) = 1 /\ OpFailed(1)

\* C37: for a text that is not empty splitStringIntoChunks returns no empty
\* chunk, a text whose first line alone is longer than the limit included.
C37_NoEmptyChunk ==
    (cpc = "done" /\ text # <<>>) =>
        \A i \in 1..Len(chunks) : chunks[i] # <<>>

C10_OtherErrorReturnedAtOnce ==
    \A k \in 1..Len(attempts) :
        attempts[k].ans.kind = "error" =>
            /\ k = Len(attempts)
            /\ spc = "done"
            /\ err = attempts[k].ans
            /\ ops[Len(ops)].res = attempts[k].ans

\* C10's case: the first attempt of the first of several operations fails
\* with another error while retries are left, and nothing more is sent.
C10_Witness ==
    /\ spc = "done"
    /\ err.kind = "error"
    /\ cfgRetry >= 2
    /\ Len(attempts) = 1
    /\ Len(ops) = 1 /\ Len(PlannedOps(msg)) > 1

=============================================================================
